---- MODULE Spec2Model ----
(***************************************************************************)
(* State-machine model of s57-postgis: the zoom mapper (zfinder.hpp), the *)
(* chart reader (s57.cpp), the PostGIS store (database.cpp), the ingest   *)
(* coordinator (ingest.cpp) and the command line driver (main.cpp).       *)
(***************************************************************************)
EXTENDS Integers, Sequences, FiniteSets, TLC

(***************************************************************************)
(* Text is a sequence of one-character strings, so that parsing is done   *)
(* character by character as the C++ library does it.                     *)
(***************************************************************************)
DigitVal == [c \in {"0","1","2","3","4","5","6","7","8","9"} |->
               CASE c = "0" -> 0 [] c = "1" -> 1 [] c = "2" -> 2 [] c = "3" -> 3
                 [] c = "4" -> 4 [] c = "5" -> 5 [] c = "6" -> 6 [] c = "7" -> 7
                 [] c = "8" -> 8 [] c = "9" -> 9]

IsDigit(c) == c \in DOMAIN DigitVal

IsSpace(c) == c \in {" ", "\t", "\n"}

\* 32-bit int limits (std::stoi range check)
INT_MAX == 2147483647

INT_MIN == (-2147483647) - 1

\* strtol's accumulation of the digit run: the value is built as a negative
\* number so that INT_MIN is representable; "range" marks the overflow that
\* makes std::stoi throw std::out_of_range.
RECURSIVE StoiDigits(_, _, _, _)
StoiDigits(s, i, acc, seen) ==
    IF i > Len(s) \/ ~IsDigit(s[i])
    THEN [seen |-> seen, range |-> FALSE, neg |-> acc]
    ELSE LET d == DigitVal[s[i]] IN
         IF acc < -214748364 \/ (acc = -214748364 /\ d > 8)
         THEN [seen |-> TRUE, range |-> TRUE, neg |-> 0]
         ELSE StoiDigits(s, i + 1, acc * 10 - d, TRUE)

RECURSIVE SkipSpace(_, _)
SkipSpace(s, i) == IF i <= Len(s) /\ IsSpace(s[i]) THEN SkipSpace(s, i + 1) ELSE i

\* std::stoi(text): [ok |-> TRUE, val |-> n] or [ok |-> FALSE] when it throws
\* (std::invalid_argument: no digits; std::out_of_range: not an int).
Stoi(s) ==
    LET i0   == SkipSpace(s, 1)
        sign == IF i0 <= Len(s) /\ s[i0] \in {"+", "-"} THEN s[i0] ELSE ""
        i1   == IF sign = "" THEN i0 ELSE i0 + 1
        r    == StoiDigits(s, i1, 0, FALSE)
    IN  IF ~r.seen \/ r.range THEN [ok |-> FALSE, val |-> 0]
        ELSE IF sign = "-" THEN [ok |-> TRUE, val |-> r.neg]
        ELSE IF r.neg = INT_MIN THEN [ok |-> FALSE, val |-> 0]
        ELSE [ok |-> TRUE, val |-> -r.neg]

(***************************************************************************)
(* ZFinder (zfinder.hpp)                                                   *)
(***************************************************************************)
ONE_TO_ONE_ZOOM == 28

\* The loop of findZoom.  zScale is a double obtained from an int by
\* repeated exact halving; it is represented by its integer part q and a
\* flag frac telling whether its fractional part is non-zero, which decides
\* zScale > 1.0 exactly.
RECURSIVE findZoomLoop(_, _, _)
findZoomLoop(q, frac, zoom) ==
    IF q > 1 \/ (q = 1 /\ frac)
    THEN findZoomLoop(q \div 2, frac \/ (q % 2 = 1), zoom - 1)
    ELSE zoom

\* A variant halving in integer arithmetic (the fraction is dropped).
findZoomIntHalving(scale) ==
    LET RECURSIVE L(_, _)
        L(q, zoom) == IF q > 1 THEN L(q \div 2, zoom - 1) ELSE zoom
    IN  L(scale, ONE_TO_ONE_ZOOM)

findZoom(scale) == findZoomLoop(scale, FALSE, ONE_TO_ONE_ZOOM)

\* calculateZRange without the final swap
calculateZRangeNoSwap(scamin, scamax) ==
    <<IF scamin > 0 THEN findZoom(scamin) ELSE 0,
      IF scamax > 0 THEN findZoom(scamax) ELSE ONE_TO_ONE_ZOOM>>

calculateZRange(scamin, scamax) ==
    LET minZ == IF scamin > 0 THEN findZoom(scamin) ELSE 0
        maxZ == IF scamax > 0 THEN findZoom(scamax) ELSE ONE_TO_ONE_ZOOM
    IN  IF minZ > maxZ THEN <<maxZ, minZ>> ELSE <<minZ, maxZ>>

(***************************************************************************)
(* S57 reader (s57.cpp): records of the vector data source.  A record is  *)
(* [props, geom]: props maps the names of the set, non-empty attributes   *)
(* to their text (extractProperties), geom is 0 when the record has no    *)
(* geometry and otherwise a number standing for its GeoJSON text.         *)
(***************************************************************************)
NoProps == [k \in {} |-> <<>>]

getScaleRange(props) ==
    LET a == IF "SCAMIN" \in DOMAIN props THEN Stoi(props["SCAMIN"]) ELSE [ok |-> FALSE, val |-> 0]
        b == IF "SCAMAX" \in DOMAIN props THEN Stoi(props["SCAMAX"]) ELSE [ok |-> FALSE, val |-> 0]
        scamin == IF a.ok THEN a.val ELSE 0
        scamax == IF b.ok THEN b.val ELSE 0
    IN  calculateZRange(scamin, scamax)

\* The body of the record loop of getLayerFeatures: one Feature per record.
MakeFeature(layerName, rec) ==
    LET zr == getScaleRange(rec.props)
    IN  [layer |-> layerName, geom |-> rec.geom, minZ |-> zr[1], maxZ |-> zr[2]]


\* the exclusion list without the topology layer "Edge"
isExcludedLayerNoEdge(layerName) == layerName \in {"DSID", "IsolatedNode", "ConnectedNode", "Face"}

isExcludedLayer(layerName) == layerName \in {"DSID", "IsolatedNode", "ConnectedNode", "Edge", "Face"}

(***************************************************************************)
(* The chart files the reader is run on.  A file is what GDAL exposes of  *)
(* it: whether it opens, and its layers in source order, each a sequence  *)
(* of records.  DSNM, UADT and ISDT are plain strings; numeric attribute  *)
(* text (DSPM_CSCL, SCAMIN, SCAMAX) is character sequences.               *)
(***************************************************************************)
\* number of records of the large layer of chart file "fA2"
BigRecs == 1000

Rec(props, geom) == [props |-> props, geom |-> geom]

Scamin(t) == [k \in {"SCAMIN"} |-> t]

T50000 == <<"5","0","0","0","0">>

T25000 == <<"2","5","0","0","0">>

T12000 == <<"1","2","0","0","0">>

FileIds == {"fA1", "fA2", "fB", "fC", "fD", "fE"}

File_fA1 ==
    [path |-> "charts/US1.000", fileName |-> "US1.000", stem |-> "US1", opens |-> TRUE,
     layers |-> <<
       [name |-> "DSID", recs |-> <<Rec([k \in {"DSNM","DSPM_CSCL","UADT","ISDT"} |->
                   CASE k = "DSNM" -> "US1" [] k = "DSPM_CSCL" -> T50000
                     [] k = "UADT" -> "20240101" [] k = "ISDT" -> "20230101"], 0)>>],
       [name |-> "M_COVR", recs |-> <<Rec(NoProps, 1)>>],
       [name |-> "SOUNDG", recs |-> <<Rec(Scamin(T50000), 2), Rec(NoProps, 3)>>],
       [name |-> "Edge", recs |-> <<Rec(NoProps, 4)>>] >>]

File_fA2 ==
    [path |-> "charts/US1_v2.000", fileName |-> "US1_v2.000", stem |-> "US1_v2", opens |-> TRUE,
     layers |-> <<
       [name |-> "DSID", recs |-> <<Rec([k \in {"DSNM","DSPM_CSCL","UADT","ISDT"} |->
                   CASE k = "DSNM" -> "US1" [] k = "DSPM_CSCL" -> T25000
                     [] k = "UADT" -> "20240601" [] k = "ISDT" -> "20240105"], 0)>>],
       [name |-> "M_COVR", recs |-> <<Rec(NoProps, 10)>>],
       [name |-> "DEPARE", recs |-> [i \in 1..BigRecs |->
                   Rec(IF i % 2 = 0 THEN Scamin(T12000) ELSE NoProps, 10 + i)]] >>]

\* no DSNM: the name falls back to the file stem; the scale is not a number
File_fB ==
    [path |-> "charts/GB2.000", fileName |-> "GB2.000", stem |-> "GB2", opens |-> TRUE,
     layers |-> <<
       [name |-> "DSID", recs |-> <<Rec([k \in {"DSPM_CSCL"} |-> <<"n","/","a">>], 0)>>],
       [name |-> "M_COVR", recs |-> <<Rec(NoProps, 20)>>],
       [name |-> "LIGHTS", recs |-> <<Rec([k \in {"SCAMIN","SCAMAX"} |->
                   IF k = "SCAMIN" THEN <<"1">> ELSE <<"0">>], 21)>>] >>]

\* the second C_AGGR record has no geometry (collection object)
File_fC ==
    [path |-> "charts/US3.000", fileName |-> "US3.000", stem |-> "US3", opens |-> TRUE,
     layers |-> <<
       [name |-> "DSID", recs |-> <<Rec([k \in {"DSNM","DSPM_CSCL"} |->
                   IF k = "DSNM" THEN "US3" ELSE T12000], 0)>>],
       [name |-> "M_COVR", recs |-> <<Rec(NoProps, 30)>>],
       [name |-> "C_AGGR", recs |-> <<Rec(NoProps, 31), Rec(NoProps, 0)>>] >>]

\* a cell named US1 without coverage layer
File_fD ==
    [path |-> "charts/US1_nocov.000", fileName |-> "US1_nocov.000", stem |-> "US1_nocov", opens |-> TRUE,
     layers |-> <<
       [name |-> "DSID", recs |-> <<Rec([k \in {"DSNM","DSPM_CSCL"} |->
                   IF k = "DSNM" THEN "US1" ELSE T50000], 0)>>],
       [name |-> "BOYLAT", recs |-> <<Rec(NoProps, 40)>>] >>]

\* not a readable S-57 cell: GDALOpenEx returns null
File_fE ==
    [path |-> "charts/bad.000", fileName |-> "bad.000", stem |-> "bad", opens |-> FALSE,
     layers |-> <<>>]

\* cells of BigRecs - 1 and BigRecs features (coverage record included)
File_fF ==
    [path |-> "batch/US4.000", fileName |-> "US4.000", stem |-> "US4", opens |-> TRUE,
     layers |-> <<
       [name |-> "DSID", recs |-> <<Rec([k \in {"DSNM","DSPM_CSCL"} |->
                   IF k = "DSNM" THEN "US4" ELSE T25000], 0)>>],
       [name |-> "M_COVR", recs |-> <<Rec(NoProps, 50)>>],
       [name |-> "DEPARE", recs |-> [i \in 1..(BigRecs - 2) |-> Rec(NoProps, 50 + i)]] >>]

File_fG ==
    [path |-> "batch/US5.000", fileName |-> "US5.000", stem |-> "US5", opens |-> TRUE,
     layers |-> <<
       [name |-> "DSID", recs |-> <<Rec([k \in {"DSNM","DSPM_CSCL"} |->
                   IF k = "DSNM" THEN "US5" ELSE T25000], 0)>>],
       [name |-> "M_COVR", recs |-> <<Rec(NoProps, 60)>>],
       [name |-> "DEPARE", recs |-> [i \in 1..(BigRecs - 1) |-> Rec(NoProps, 60 + i)]] >>]

\* a cell with a header record only: no feature is extracted from it
File_fH ==
    [path |-> "batch/US6.000", fileName |-> "US6.000", stem |-> "US6", opens |-> TRUE,
     layers |-> <<
       [name |-> "DSID", recs |-> <<Rec([k \in {"DSNM","DSPM_CSCL"} |->
                   IF k = "DSNM" THEN "US6" ELSE T25000], 0)>>] >>]

FileOf(f) ==
    CASE f = "fA1" -> File_fA1
      [] f = "fA2" -> File_fA2
      [] f = "fB" -> File_fB
      [] f = "fC" -> File_fC
      [] f = "fD" -> File_fD
      [] f = "fE" -> File_fE
      [] f = "fF" -> File_fF
      [] f = "fG" -> File_fG
      [] f = "fH" -> File_fH

\* S57::S57(filePath): the reader holds the data source opened from the file
S57(f) == FileOf(f)

\* S57::isOpen
isOpen(s57) == s57.opens

getLayerNames(s57) ==
    IF ~isOpen(s57) THEN <<>>
    ELSE [i \in 1..Len(s57.layers) |-> s57.layers[i].name]

\* GDALDataset::GetLayerByName: index of the layer, 0 when there is none
LayerIndex(s57, layerName) ==
    LET hits == {i \in 1..Len(s57.layers) : s57.layers[i].name = layerName}
    IN  IF hits = {} THEN 0 ELSE CHOOSE i \in hits : \A j \in hits : i <= j

\* first record of a layer read by getDsidProperties / getMCovrProperties /
\* getCoverageGeoJson; <<>> when the layer is missing or empty
FirstRecord(s57, layerName) ==
    LET li == LayerIndex(s57, layerName)
    IN  IF ~isOpen(s57) \/ li = 0 THEN <<>>
        ELSE IF s57.layers[li].recs = <<>> THEN <<>>
        ELSE <<s57.layers[li].recs[1]>>

getDsidProperties(s57) ==
    IF FirstRecord(s57, "DSID") = <<>> THEN NoProps ELSE FirstRecord(s57, "DSID")[1].props

\* 0 stands for the text "{}" returned when there is no coverage geometry
getCoverageGeoJson(s57) ==
    IF FirstRecord(s57, "M_COVR") = <<>> THEN 0 ELSE FirstRecord(s57, "M_COVR")[1].geom

DefaultChartInfo ==
    [name |-> "", scale |-> 0, fileName |-> "", updated |-> "", issued |-> "", zoom |-> 0, covr |-> 0]

\* getChartInfo without the isOpen check of line 232
getChartInfoUnchecked(s57) ==
    LET dsid  == getDsidProperties(s57)
        sc    == IF "DSPM_CSCL" \in DOMAIN dsid THEN Stoi(dsid["DSPM_CSCL"]) ELSE [ok |-> FALSE, val |-> 0]
        scale == IF sc.ok THEN sc.val ELSE 0
    IN  [name     |-> IF "DSNM" \in DOMAIN dsid THEN dsid["DSNM"] ELSE s57.stem,
         scale    |-> scale,
         fileName |-> s57.fileName,
         updated  |-> IF "UADT" \in DOMAIN dsid THEN dsid["UADT"] ELSE "",
         issued   |-> IF "ISDT" \in DOMAIN dsid THEN dsid["ISDT"] ELSE "",
         zoom     |-> IF scale > 0 THEN findZoom(scale) ELSE 0,
         covr     |-> getCoverageGeoJson(s57)]

getChartInfo(s57) ==
    IF ~isOpen(s57) THEN DefaultChartInfo
    ELSE LET dsid  == getDsidProperties(s57)
             sc    == IF "DSPM_CSCL" \in DOMAIN dsid THEN Stoi(dsid["DSPM_CSCL"]) ELSE [ok |-> FALSE, val |-> 0]
             scale == IF sc.ok THEN sc.val ELSE 0
         IN  [name     |-> IF "DSNM" \in DOMAIN dsid THEN dsid["DSNM"] ELSE s57.stem,
              scale    |-> scale,
              fileName |-> s57.fileName,
              updated  |-> IF "UADT" \in DOMAIN dsid THEN dsid["UADT"] ELSE "",
              issued   |-> IF "ISDT" \in DOMAIN dsid THEN dsid["ISDT"] ELSE "",
              zoom     |-> IF scale > 0 THEN findZoom(scale) ELSE 0,
              covr     |-> getCoverageGeoJson(s57)]

getLayerFeatures(s57, layerName) ==
    IF ~isOpen(s57) THEN <<>>
    ELSE IF isExcludedLayer(layerName) THEN <<>>
    ELSE IF LayerIndex(s57, layerName) = 0 THEN <<>>
    ELSE LET recs == s57.layers[LayerIndex(s57, layerName)].recs
         IN  [i \in 1..Len(recs) |-> MakeFeature(layerName, recs[i])]

RECURSIVE getAllFeaturesFrom(_, _, _)
getAllFeaturesFrom(s57, names, k) ==
    IF k > Len(names) THEN <<>>
    ELSE (IF isExcludedLayer(names[k]) THEN <<>> ELSE getLayerFeatures(s57, names[k]))
         \o getAllFeaturesFrom(s57, names, k + 1)

getAllFeatures(s57) ==
    IF ~isOpen(s57) THEN <<>> ELSE getAllFeaturesFrom(s57, getLayerNames(s57), 1)

\* the features of the large file, read once
FeaturesA2 == getAllFeatures(S57("fA2"))

\* s57.getAllFeatures() of processFile (line 120) for the reader of file f
readAllFeatures(f) == IF f = "fA2" THEN FeaturesA2 ELSE getAllFeatures(S57(f))


(***************************************************************************)
(* State                                                                   *)
(***************************************************************************)
VARIABLES
    connected,        \* Database::isConnected(): conn_ is an open connection
    charts,           \* table charts: set of rows [id, name, scale, file_name, updated, issued, zoom, covr]
    features,         \* table features, in insertion order: rows [layer, geom, chart_id, z_range]
    chartSeq,         \* last value handed out by the BIGSERIAL sequence of charts.id
    faults,           \* number of statements that raised a transient database error so far
    pf,               \* frame of the processFile call in progress
    dbcall,           \* the last Database operation invoked, with its arguments and result
    hist,             \* the last two completed calls made by the client of the library
    ncall,            \* number of top-level calls made so far
    mainv,            \* frame of main(): position, input, results vector, exit code
    pfs,              \* frame of the processFiles call in progress
    processedCount_,  \* ChartIngest counters
    successCount_,
    failCount_,
    totalFeatures_,
    zarg,             \* argument of the reader / zoom function applied last
    zres              \* its result

storeVars == <<connected, charts, features, chartSeq>>

ingestVars == <<processedCount_, successCount_, failCount_, totalFeatures_>>

mainVars == <<mainv, pfs, processedCount_, successCount_, failCount_, totalFeatures_>>

zoomVars == <<zarg, zres>>

vars == <<connected, charts, features, chartSeq, faults, pf, dbcall, hist, ncall,
          mainv, pfs, processedCount_, successCount_, failCount_, totalFeatures_, zarg, zres>>

\* bounds of the exploration
MaxCalls == 2

MaxFaults == 1

(***************************************************************************)
(* Database (database.cpp).  Every operation runs in one pqxx::work: an   *)
(* exception raised by any statement leaves the transaction uncommitted   *)
(* and its destructor aborts it.  The parameter ex of an operation tells  *)
(* whether a statement raises a transient error (lost connection,         *)
(* timeout, lock failure); errors caused by the data are computed.        *)
(***************************************************************************)
\* PostgreSQL int4range(lo, hi): the two-argument constructor yields the
\* canonical form [lo,hi) - lower bound included, upper bound excluded -
\* which is empty for lo = hi, and raises an error for lo > hi.
Int4Range(lo, hi) ==
    [empty |-> (lo = hi), lower |-> lo, upper |-> hi]

\* z <@ r for a stored int4range
RangeContains(r, z) == ~r.empty /\ r.lower <= z /\ z < r.upper

\* ST_GeomFromGeoJSON raises an error on "" and on "{}" (no geometry)
GeoJsonOk(g) == g # 0

\* the row written by INSERT INTO charts ... VALUES ($1 .. $9) RETURNING id
ChartRowSwapped(id, chart) ==
    [id |-> id, name |-> chart.name, scale |-> chart.zoom, file_name |-> chart.fileName,
     updated |-> chart.updated, issued |-> chart.issued, zoom |-> chart.scale, covr |-> chart.covr]

ChartRow(id, chart) ==
    [id |-> id, name |-> chart.name, scale |-> chart.scale, file_name |-> chart.fileName,
     updated |-> chart.updated, issued |-> chart.issued, zoom |-> chart.zoom, covr |-> chart.covr]

\* the row written by INSERT INTO features ... int4range($5, $6)
FeatureRow(chartId, feature) ==
    [layer |-> feature.layer, geom |-> feature.geom, chart_id |-> chartId,
     z_range |-> Int4Range(feature.minZ, feature.maxZ)]

\* does the INSERT of one feature row execute without error: geometry
\* parses, the range is well formed, chart_id REFERENCES charts (id)
FeatureInsertOk(chartId, feature) ==
    /\ GeoJsonOk(feature.geom)
    /\ feature.minZ <= feature.maxZ
    /\ \E c \in charts : c.id = chartId

\* Result of an operation: its return value and the store it leaves.
DbResult(ret, ch, ft, seq) == [ret |-> ret, charts |-> ch, features |-> ft, chartSeq |-> seq]

Unchanged(ret) == DbResult(ret, charts, features, chartSeq)

\* insertChart without the UNIQUE constraint on charts.name
insertChartNoUnique(chart, ex) ==
    IF ~connected THEN Unchanged(0)
    ELSE IF ex THEN Unchanged(0)
    ELSE IF ~GeoJsonOk(chart.covr) THEN DbResult(0, charts, features, chartSeq + 1)
    ELSE DbResult(chartSeq + 1, charts \cup {ChartRow(chartSeq + 1, chart)}, features, chartSeq + 1)

\* std::optional<int64_t> insertChart: ret is the new id, 0 for nullopt.
\* The id is drawn from the sequence before the row is checked, so a
\* rejected row consumes a value.
insertChart(chart, ex) ==
    IF ~connected THEN Unchanged(0)
    ELSE IF ex THEN Unchanged(0)
    ELSE IF ~GeoJsonOk(chart.covr) \/ (\E c \in charts : c.name = chart.name)
         THEN DbResult(0, charts, features, chartSeq + 1)
    ELSE DbResult(chartSeq + 1, charts \cup {ChartRow(chartSeq + 1, chart)}, features, chartSeq + 1)

chartExists(name, ex) ==
    IF ~connected THEN Unchanged(FALSE)
    ELSE IF ex THEN Unchanged(FALSE)
    ELSE Unchanged(\E c \in charts : c.name = name)

\* deleteChart that removes the chart row only
deleteChartKeepFeatures(name, ex) ==
    IF ~connected THEN Unchanged(FALSE)
    ELSE IF ex THEN Unchanged(FALSE)
    ELSE DbResult(TRUE, {c \in charts : c.name # name}, features, chartSeq)

\* deleteChart that takes the first chart of the table, whatever its name
deleteChartAnyName(name, ex) ==
    IF ~connected THEN Unchanged(FALSE)
    ELSE IF ex THEN Unchanged(FALSE)
    ELSE LET idResult == {c.id : c \in charts} IN
         IF idResult = {} THEN Unchanged(TRUE)
         ELSE LET chartId == CHOOSE id \in idResult : \A other \in idResult : id <= other IN
              DbResult(TRUE,
                       {c \in charts : c.id # chartId},
                       SelectSeq(features, LAMBDA r : r.chart_id # chartId),
                       chartSeq)

\* deleteChart that reports a missing chart as a failure
deleteChartStrict(name, ex) ==
    IF ~connected THEN Unchanged(FALSE)
    ELSE IF ex THEN Unchanged(FALSE)
    ELSE LET idResult == {c.id : c \in {d \in charts : d.name = name}} IN
         IF idResult = {} THEN Unchanged(FALSE)
         ELSE LET chartId == CHOOSE id \in idResult : TRUE IN
              DbResult(TRUE,
                       {c \in charts : c.id # chartId},
                       SelectSeq(features, LAMBDA r : r.chart_id # chartId),
                       chartSeq)

deleteChart(name, ex) ==
    IF ~connected THEN Unchanged(FALSE)
    ELSE IF ex THEN Unchanged(FALSE)
    ELSE LET idResult == {c.id : c \in {d \in charts : d.name = name}} IN
         IF idResult = {} THEN Unchanged(TRUE)
         ELSE LET chartId == CHOOSE id \in idResult : TRUE IN
              DbResult(TRUE,
                       {c \in charts : c.id # chartId},
                       SelectSeq(features, LAMBDA r : r.chart_id # chartId),
                       chartSeq)

\* index of the first feature of the batch whose INSERT raises, 0 if none;
\* exAt is the index at which a transient error is raised (0: none,
\* Len + 1: at commit)
FirstFailure(chartId, batch, exAt) ==
    LET bad == {k \in 1..Len(batch) : ~FeatureInsertOk(chartId, batch[k]) \/ k = exAt}
                 \cup (IF exAt = Len(batch) + 1 THEN {exAt} ELSE {})
    IN  IF bad = {} THEN 0 ELSE CHOOSE k \in bad : \A j \in bad : k <= j

BatchRows(chartId, batch) == [k \in 1..Len(batch) |-> FeatureRow(chartId, batch[k])]

\* insertFeatures with every row committed on its own (no enclosing transaction)
insertFeaturesAutocommit(chartId, batch, exAt) ==
    IF ~connected THEN Unchanged(FALSE)
    ELSE IF batch = <<>> THEN Unchanged(TRUE)
    ELSE LET ff == FirstFailure(chartId, batch, exAt) IN
         IF ff # 0
         THEN DbResult(FALSE, charts, features \o SubSeq(BatchRows(chartId, batch), 1, ff - 1), chartSeq)
         ELSE DbResult(TRUE, charts, features \o BatchRows(chartId, batch), chartSeq)

\* insertFeatures inside a transaction spanning the file: a failed batch
\* takes the chart and the batches before it along
insertFeaturesRollbackFile(chartId, batch, exAt) ==
    IF ~connected THEN Unchanged(FALSE)
    ELSE IF batch = <<>> THEN Unchanged(TRUE)
    ELSE IF FirstFailure(chartId, batch, exAt) # 0
    THEN DbResult(FALSE, {c \in charts : c.id # chartId},
                  SelectSeq(features, LAMBDA r : r.chart_id # chartId), chartSeq)
    ELSE DbResult(TRUE, charts, features \o BatchRows(chartId, batch), chartSeq)

insertFeatures(chartId, batch, exAt) ==
    IF ~connected THEN Unchanged(FALSE)
    ELSE IF batch = <<>> THEN Unchanged(TRUE)
    ELSE IF FirstFailure(chartId, batch, exAt) # 0 THEN Unchanged(FALSE)
    ELSE DbResult(TRUE, charts, features \o BatchRows(chartId, batch), chartSeq)

insertFeature(chartId, feature, ex) ==
    IF ~connected THEN Unchanged(FALSE)
    ELSE IF ex \/ ~FeatureInsertOk(chartId, feature) THEN Unchanged(FALSE)
    ELSE DbResult(TRUE, charts, features \o <<FeatureRow(chartId, feature)>>, chartSeq)


(***************************************************************************)
(* Bookkeeping of the calls made                                           *)
(***************************************************************************)
DbCall(n, op, name, chartId, batch, ok, id, exAt) ==
    [n |-> n, op |-> op, name |-> name, chartId |-> chartId, batch |-> batch,
     ok |-> ok, id |-> id, exAt |-> exAt]

NoDbCall == DbCall(0, "none", "", 0, <<>>, FALSE, 0, 0)

\* may the next statement raise a transient error
ExChoices == IF connected /\ faults < MaxFaults THEN {FALSE, TRUE} ELSE {FALSE}

\* points of a batch at which a transient error is tried: first row, commit
ExAtChoices(batch) ==
    IF connected /\ faults < MaxFaults /\ batch # <<>> THEN {0, 1, Len(batch) + 1} ELSE {0}

Store(r) ==
    /\ charts' = r.charts
    /\ features' = r.features
    /\ chartSeq' = r.chartSeq
    /\ UNCHANGED connected

DefaultResult ==
    [success |-> FALSE, fileName |-> "", chartName |-> "", featureCount |-> 0, errorMessage |-> ""]

IdleFrame ==
    [pc |-> "idle", caller |-> "", file |-> "", chartInfo |-> DefaultChartInfo, chartId |-> 0,
     features |-> <<>>, i |-> 0, calls |-> 0, result |-> DefaultResult]

HistEntry(op, file, result, chartId) ==
    [op |-> op, file |-> file, result |-> result, chartId |-> chartId]

\* keep the last two entries
Remember(e) == IF Len(hist) < 2 THEN Append(hist, e) ELSE <<hist[2], e>>

(***************************************************************************)
(* ChartIngest::processFile (ingest.cpp), one step per database call       *)
(***************************************************************************)
batchSize == 1000

Min(a, b) == IF a < b THEN a ELSE b

\* lines 79-94: construct the reader, check isOpen, read the chart info
EnterProcessFile(f, caller) ==
    LET r0 == [DefaultResult EXCEPT !.fileName = S57(f).fileName] IN
    IF ~isOpen(S57(f))
    THEN [IdleFrame EXCEPT !.pc = "ret", !.caller = caller, !.file = f,
                           !.result = [r0 EXCEPT !.success = FALSE,
                                                 !.errorMessage = "Failed to open file"]]
    ELSE [IdleFrame EXCEPT !.pc = "exists", !.caller = caller, !.file = f,
                           !.chartInfo = getChartInfo(S57(f)),
                           !.result = [r0 EXCEPT !.chartName = getChartInfo(S57(f)).name]]

\* line 102: if (database_.chartExists(chartInfo.name))
PfChartExists ==
    /\ pf.pc = "exists"
    /\ \E ex \in ExChoices :
         LET r == chartExists(pf.chartInfo.name, ex) IN
         /\ Store(r)
         /\ faults' = faults + (IF ex THEN 1 ELSE 0)
         /\ dbcall' = DbCall(dbcall.n + 1, "chartExists", pf.chartInfo.name, 0, <<>>, r.ret, 0,
                             IF ex THEN 1 ELSE 0)
         /\ pf' = [pf EXCEPT !.pc = IF r.ret THEN "delete" ELSE "insert"]
    /\ UNCHANGED <<hist, ncall, mainVars, zoomVars>>

\* processFile giving up when deleteChart returns false
PfDeleteChartChecked ==
    /\ pf.pc = "delete"
    /\ \E ex \in ExChoices :
         LET r == deleteChart(pf.chartInfo.name, ex) IN
         /\ Store(r)
         /\ faults' = faults + (IF ex THEN 1 ELSE 0)
         /\ dbcall' = DbCall(dbcall.n + 1, "deleteChart", pf.chartInfo.name, 0, <<>>, r.ret, 0,
                             IF ex THEN 1 ELSE 0)
         /\ pf' = IF r.ret THEN [pf EXCEPT !.pc = "insert"]
                  ELSE [pf EXCEPT !.pc = "ret", !.result.success = FALSE,
                                  !.result.errorMessage = "Failed to delete chart"]
    /\ UNCHANGED <<hist, ncall, mainVars, zoomVars>>

\* line 106: database_.deleteChart(chartInfo.name); the result is not looked at
PfDeleteChart ==
    /\ pf.pc = "delete"
    /\ \E ex \in ExChoices :
         LET r == deleteChart(pf.chartInfo.name, ex) IN
         /\ Store(r)
         /\ faults' = faults + (IF ex THEN 1 ELSE 0)
         /\ dbcall' = DbCall(dbcall.n + 1, "deleteChart", pf.chartInfo.name, 0, <<>>, r.ret, 0,
                             IF ex THEN 1 ELSE 0)
         /\ pf' = [pf EXCEPT !.pc = "insert"]
    /\ UNCHANGED <<hist, ncall, mainVars, zoomVars>>

\* processFile calling insertChart again when it returned no identifier
pfAfterInsertChartRetry(frame, id, fs) ==
    IF id = 0
    THEN frame
    ELSE LET fr == [frame EXCEPT !.chartId = id, !.features = fs, !.i = 0,
                                 !.result.featureCount = Len(fs)]
         IN  IF 0 < Len(fs) THEN [fr EXCEPT !.pc = "batch"]
             ELSE [fr EXCEPT !.pc = "ret", !.result.success = TRUE]

\* lines 110-125: insertChart, then getAllFeatures; a file without
\* features leaves the batch loop at once (line 143)
pfAfterInsertChart(frame, id, fs) ==
    IF id = 0
    THEN [frame EXCEPT !.pc = "ret", !.result.success = FALSE,
                       !.result.errorMessage = "Failed to insert chart"]
    ELSE LET fr == [frame EXCEPT !.chartId = id, !.features = fs, !.i = 0,
                                 !.result.featureCount = Len(fs)]
         IN  IF 0 < Len(fs) THEN [fr EXCEPT !.pc = "batch"]
             ELSE [fr EXCEPT !.pc = "ret", !.result.success = TRUE]

PfInsertChart ==
    /\ pf.pc = "insert"
    /\ \E ex \in ExChoices :
         LET r == insertChart(pf.chartInfo, ex) IN
         /\ Store(r)
         /\ faults' = faults + (IF ex THEN 1 ELSE 0)
         /\ dbcall' = DbCall(dbcall.n + 1, "insertChart", pf.chartInfo.name, 0, <<>>, r.ret # 0, r.ret,
                             IF ex THEN 1 ELSE 0)
         /\ pf' = pfAfterInsertChart(pf, r.ret, readAllFeatures(pf.file))
    /\ UNCHANGED <<hist, ncall, mainVars, zoomVars>>

\* the batch loop sending everything after offset i in one call
pfBatchWholeTail(frame) == SubSeq(frame.features, frame.i + 1, Len(frame.features))

\* the batch loop going on to the next batch after a failed one
pfAfterBatchIgnoringFailure(frame, ok) ==
    LET ni == frame.i + batchSize
        fr == [frame EXCEPT !.i = ni, !.calls = frame.calls + 1]
    IN  IF ni < Len(frame.features) THEN fr
        ELSE [fr EXCEPT !.pc = "ret", !.result.success = TRUE]

\* lines 136-143: the outcome of one insertFeatures call of the loop
pfAfterBatch(frame, ok) ==
    LET ni == frame.i + batchSize
        fr == [frame EXCEPT !.calls = frame.calls + 1]
    IN  IF ~ok
        THEN [fr EXCEPT !.pc = "ret", !.result.success = FALSE,
                        !.result.errorMessage = "Failed to insert features"]
        ELSE IF ni < Len(frame.features) THEN [fr EXCEPT !.i = ni]
        ELSE [fr EXCEPT !.i = ni, !.pc = "ret", !.result.success = TRUE]

\* lines 129-134: the batch starting at offset i
pfBatch(frame) ==
    SubSeq(frame.features, frame.i + 1, Min(frame.i + batchSize, Len(frame.features)))

PfInsertBatch ==
    /\ pf.pc = "batch"
    /\ pf.i < Len(pf.features)
    /\ LET batch == pfBatch(pf) IN
       \E exAt \in ExAtChoices(batch) :
         LET r == insertFeatures(pf.chartId, batch, exAt) IN
         /\ Store(r)
         /\ faults' = faults + (IF exAt # 0 THEN 1 ELSE 0)
         /\ dbcall' = DbCall(dbcall.n + 1, "insertFeatures", "", pf.chartId, batch, r.ret, 0, exAt)
         /\ pf' = pfAfterBatch(pf, r.ret)
    /\ UNCHANGED <<hist, ncall, mainVars, zoomVars>>

\* what() of the exceptions that reach the handler of processFile: the
\* Database operations catch their own, an allocation failure is left
ExceptionTexts == {"std::bad_alloc"}

\* processFile without handler: the exception leaves the function
pfCatchNone(frame, what) == [frame EXCEPT !.pc = "thrown"]

\* lines 145-148: catch (const std::exception& e)
pfCatch(frame, what) ==
    [frame EXCEPT !.pc = "ret", !.result.success = FALSE, !.result.errorMessage = what]

\* an exception thrown inside the try block, after the chart info was read
\* (lines 92-99) or while a batch is built (lines 120-134)
PfException ==
    /\ pf.pc \in {"exists", "batch"}
    /\ faults < MaxFaults
    /\ \E what \in ExceptionTexts : pf' = pfCatch(pf, what)
    /\ faults' = faults + 1
    /\ UNCHANGED <<storeVars, dbcall, hist, ncall, mainVars, zoomVars>>

(***************************************************************************)
(* A client of the library: calls of Database operations and of           *)
(* ChartIngest::processFile, one after the other.                          *)
(***************************************************************************)
ClientIdle == pf.pc = "idle" /\ ncall < MaxCalls

ClientChartInfos == {getChartInfo(S57(f)) : f \in {g \in FileIds : isOpen(S57(g))}}

ClientNames == {ci.name : ci \in ClientChartInfos} \cup {"none"}

ClientChartIds == 1..2

ClientFeatures ==
    { [layer |-> "SOUNDG", geom |-> 50, minZ |-> 0, maxZ |-> 28],
      [layer |-> "LIGHTS", geom |-> 51, minZ |-> 12, maxZ |-> 12],
      [layer |-> "C_AGGR", geom |-> 0, minZ |-> 0, maxZ |-> 28] }

ClientBatches ==
    { <<>>,
      <<[layer |-> "SOUNDG", geom |-> 50, minZ |-> 0, maxZ |-> 28],
        [layer |-> "LIGHTS", geom |-> 51, minZ |-> 12, maxZ |-> 12]>>,
      <<[layer |-> "SOUNDG", geom |-> 50, minZ |-> 0, maxZ |-> 28],
        [layer |-> "C_AGGR", geom |-> 0, minZ |-> 0, maxZ |-> 28],
        [layer |-> "LIGHTS", geom |-> 51, minZ |-> 12, maxZ |-> 12]>> }

ClientInsertChart ==
    /\ ClientIdle
    /\ \E chart \in ClientChartInfos, ex \in ExChoices :
         LET r == insertChart(chart, ex) IN
         /\ Store(r)
         /\ faults' = faults + (IF ex THEN 1 ELSE 0)
         /\ dbcall' = DbCall(dbcall.n + 1, "insertChart", chart.name, 0, <<>>, r.ret # 0, r.ret,
                             IF ex THEN 1 ELSE 0)
         /\ hist' = Remember(HistEntry("insertChart", "", DefaultResult, r.ret))
    /\ ncall' = ncall + 1
    /\ UNCHANGED <<pf, mainVars, zoomVars>>

ClientDeleteChart ==
    /\ ClientIdle
    /\ \E name \in ClientNames, ex \in ExChoices :
         LET r == deleteChart(name, ex) IN
         /\ Store(r)
         /\ faults' = faults + (IF ex THEN 1 ELSE 0)
         /\ dbcall' = DbCall(dbcall.n + 1, "deleteChart", name, 0, <<>>, r.ret, 0, IF ex THEN 1 ELSE 0)
         /\ hist' = Remember(HistEntry("deleteChart", "", DefaultResult, 0))
    /\ ncall' = ncall + 1
    /\ UNCHANGED <<pf, mainVars, zoomVars>>

ClientInsertFeatures ==
    /\ ClientIdle
    /\ \E chartId \in ClientChartIds, batch \in ClientBatches :
         \E exAt \in ExAtChoices(batch) :
           LET r == insertFeatures(chartId, batch, exAt) IN
           /\ Store(r)
           /\ faults' = faults + (IF exAt # 0 THEN 1 ELSE 0)
           /\ dbcall' = DbCall(dbcall.n + 1, "insertFeatures", "", chartId, batch, r.ret, 0, exAt)
           /\ hist' = Remember(HistEntry("insertFeatures", "", DefaultResult, chartId))
    /\ ncall' = ncall + 1
    /\ UNCHANGED <<pf, mainVars, zoomVars>>

ClientInsertFeature ==
    /\ ClientIdle
    /\ \E chartId \in ClientChartIds, feature \in ClientFeatures, ex \in ExChoices :
         LET r == insertFeature(chartId, feature, ex) IN
         /\ Store(r)
         /\ faults' = faults + (IF ex THEN 1 ELSE 0)
         /\ dbcall' = DbCall(dbcall.n + 1, "insertFeature", "", chartId, <<feature>>, r.ret, 0,
                             IF ex THEN 1 ELSE 0)
         /\ hist' = Remember(HistEntry("insertFeature", "", DefaultResult, chartId))
    /\ ncall' = ncall + 1
    /\ UNCHANGED <<pf, mainVars, zoomVars>>

ClientProcessFile ==
    /\ ClientIdle
    /\ \E f \in FileIds : pf' = EnterProcessFile(f, "client")
    /\ ncall' = ncall + 1
    /\ UNCHANGED <<storeVars, faults, dbcall, hist, mainVars, zoomVars>>

\* processFile returns its result to the client
ClientReturn ==
    /\ pf.pc = "ret"
    /\ pf.caller = "client"
    /\ hist' = Remember(HistEntry("processFile", pf.file, pf.result, pf.chartId))
    /\ pf' = IdleFrame
    /\ UNCHANGED <<storeVars, faults, dbcall, ncall, mainVars, zoomVars>>


(***************************************************************************)
(* Specification of the library used by a client                           *)
(***************************************************************************)
NoMain ==
    [pc |-> "none", kind |-> "", file |-> "", dir |-> {}, initSchema |-> FALSE,
     processing |-> FALSE, results |-> <<>>, exitCode |-> -1]

NoProcessFiles ==
    [active |-> FALSE, files |-> <<>>, k |-> 0, total |-> 0, results |-> <<>>,
     callbackSet |-> FALSE, progress |-> <<>>]

NoZoom == [op |-> "none", scale |-> 0, props |-> NoProps]

NoZoomResult == [zoom |-> 0, minZ |-> 0, maxZ |-> 0]

EmptyStore ==
    /\ charts = {}
    /\ features = <<>>
    /\ chartSeq = 0

\* the store left by an earlier, successful ingestion of file fA1
PriorStore ==
    /\ charts = {ChartRow(1, getChartInfo(S57("fA1")))}
    /\ features = BatchRows(1, getAllFeatures(S57("fA1")))
    /\ chartSeq = 1

InitCommon ==
    /\ faults = 0
    /\ pf = IdleFrame
    /\ dbcall = NoDbCall
    /\ hist = <<>>
    /\ ncall = 0
    /\ pfs = NoProcessFiles
    /\ processedCount_ = 0
    /\ successCount_ = 0
    /\ failCount_ = 0
    /\ totalFeatures_ = 0
    /\ zarg = NoZoom
    /\ zres = NoZoomResult

\* after Database::Database(connectionString) and ChartIngest::ChartIngest(db)
Init ==
    /\ InitCommon
    /\ EmptyStore
    /\ connected \in BOOLEAN
    /\ mainv = NoMain

Next ==
    \/ ClientInsertChart
    \/ ClientDeleteChart
    \/ ClientInsertFeatures
    \/ ClientInsertFeature
    \/ ClientProcessFile
    \/ PfChartExists
    \/ PfDeleteChart
    \/ PfInsertChart
    \/ PfInsertBatch
    \/ ClientReturn

Spec == Init /\ [][Next]_vars


(***************************************************************************)
(* main (main.cpp 195-275) with ChartIngest::processFiles and              *)
(* processDirectory (ingest.cpp 153-198)                                   *)
(***************************************************************************)
\* the chart files in ascending order of their path strings (std::sort)
PathOrder == <<"fB", "fA1", "fD", "fA2", "fC", "fE">>

\* findS57Files on a directory holding the chart files dir, all regular
\* files with extension ".000": the paths found, sorted
findS57Files(dir) == SelectSeq(PathOrder, LAMBDA f : f \in dir)

\* Database::initSchema
initSchema(ex) == connected /\ ~ex

\* lines 195-205: validation of the input path
MainValidate ==
    /\ mainv.pc = "start"
    /\ mainv' = IF mainv.kind \in {"empty", "missing"}
                THEN [mainv EXCEPT !.pc = "exit", !.exitCode = 1]
                ELSE [mainv EXCEPT !.pc = "connect"]
    /\ UNCHANGED <<storeVars, faults, pf, dbcall, hist, ncall, pfs, ingestVars, zoomVars>>

\* main going on without looking at isConnected
MainConnectUnchecked ==
    /\ mainv.pc = "connect"
    /\ \E ok \in BOOLEAN :
         /\ connected' = ok
         /\ mainv' = IF mainv.initSchema /\ ok THEN [mainv EXCEPT !.pc = "schema"]
                     ELSE [mainv EXCEPT !.pc = "process"]
    /\ UNCHANGED <<charts, features, chartSeq, faults, pf, dbcall, hist, ncall, pfs, ingestVars, zoomVars>>

\* lines 212-216: s57::Database db(opts.databaseUrl)
MainConnect ==
    /\ mainv.pc = "connect"
    /\ \E ok \in BOOLEAN :
         /\ connected' = ok
         /\ mainv' = IF ~ok THEN [mainv EXCEPT !.pc = "exit", !.exitCode = 1]
                     ELSE IF mainv.initSchema THEN [mainv EXCEPT !.pc = "schema"]
                     ELSE [mainv EXCEPT !.pc = "process"]
    /\ UNCHANGED <<charts, features, chartSeq, faults, pf, dbcall, hist, ncall, pfs, ingestVars, zoomVars>>

\* lines 219-225
MainInitSchema ==
    /\ mainv.pc = "schema"
    /\ \E ex \in ExChoices :
         /\ faults' = faults + (IF ex THEN 1 ELSE 0)
         /\ mainv' = IF initSchema(ex) THEN [mainv EXCEPT !.pc = "process"]
                     ELSE [mainv EXCEPT !.pc = "exit", !.exitCode = 1]
    /\ UNCHANGED <<storeVars, pf, dbcall, hist, ncall, pfs, ingestVars, zoomVars>>

\* lines 243-246: a regular file is handed to processFile directly
MainProcessSingle ==
    /\ mainv.pc = "process"
    /\ mainv.kind = "file"
    /\ pf' = EnterProcessFile(mainv.file, "main")
    /\ mainv' = [mainv EXCEPT !.pc = "single", !.processing = TRUE]
    /\ UNCHANGED <<storeVars, faults, dbcall, hist, ncall, pfs, ingestVars, zoomVars>>

\* lines 247-250: processDirectory = findS57Files, then processFiles,
\* which resets the counters (ingest.cpp 157-162); the progress callback
\* is set unless opts.verbose (lines 234-240)
MainProcessDirectory ==
    /\ mainv.pc = "process"
    /\ mainv.kind = "dir"
    /\ \E verbose \in BOOLEAN :
         pfs' = [active |-> TRUE, files |-> findS57Files(mainv.dir), k |-> 0,
                 total |-> Len(findS57Files(mainv.dir)), results |-> <<>>,
                 callbackSet |-> ~verbose, progress |-> <<>>]
    /\ processedCount_' = 0
    /\ successCount_' = 0
    /\ failCount_' = 0
    /\ totalFeatures_' = 0
    /\ mainv' = [mainv EXCEPT !.pc = "directory", !.processing = TRUE]
    /\ UNCHANGED <<storeVars, faults, pf, dbcall, hist, ncall, zoomVars>>

\* ingest.cpp 166-167: the loop of processFiles calls processFile
ProcessFilesCall ==
    /\ pfs.active
    /\ pf.pc = "idle"
    /\ pfs.k < Len(pfs.files)
    /\ pf' = EnterProcessFile(pfs.files[pfs.k + 1], "processFiles")
    /\ UNCHANGED <<storeVars, faults, dbcall, hist, ncall, mainv, pfs, ingestVars, zoomVars>>

\* processFiles reporting progress for successful files only
progressAfterSuccessOnly(ps, result, current) ==
    IF ps.callbackSet /\ result.success
    THEN Append(ps.progress, [current |-> current, total |-> ps.total, fileName |-> result.fileName])
    ELSE ps.progress

\* ingest.cpp 181-183: progressCallback_(processedCount_, total, result.fileName),
\* the invocations being kept in order
progressAfter(ps, result, current) ==
    IF ps.callbackSet
    THEN Append(ps.progress, [current |-> current, total |-> ps.total, fileName |-> result.fileName])
    ELSE ps.progress

\* processFiles adding the feature count of failed files as well
ProcessFilesRecordCountAll ==
    /\ pf.pc = "ret"
    /\ pf.caller = "processFiles"
    /\ pfs' = [pfs EXCEPT !.results = Append(pfs.results, pf.result), !.k = pfs.k + 1,
                          !.progress = progressAfter(pfs, pf.result, processedCount_ + 1)]
    /\ processedCount_' = processedCount_ + 1
    /\ totalFeatures_' = totalFeatures_ + pf.result.featureCount
    /\ IF pf.result.success
       THEN /\ successCount_' = successCount_ + 1
            /\ UNCHANGED failCount_
       ELSE /\ failCount_' = failCount_ + 1
            /\ UNCHANGED successCount_
    /\ pf' = IdleFrame
    /\ UNCHANGED <<storeVars, faults, dbcall, hist, ncall, mainv, zoomVars>>

\* ingest.cpp 168-184: the result is recorded and counted
ProcessFilesRecord ==
    /\ pf.pc = "ret"
    /\ pf.caller = "processFiles"
    /\ pfs' = [pfs EXCEPT !.results = Append(pfs.results, pf.result), !.k = pfs.k + 1,
                          !.progress = progressAfter(pfs, pf.result, processedCount_ + 1)]
    /\ processedCount_' = processedCount_ + 1
    /\ IF pf.result.success
       THEN /\ successCount_' = successCount_ + 1
            /\ totalFeatures_' = totalFeatures_ + pf.result.featureCount
            /\ UNCHANGED failCount_
       ELSE /\ failCount_' = failCount_ + 1
            /\ UNCHANGED <<successCount_, totalFeatures_>>
    /\ pf' = IdleFrame
    /\ UNCHANGED <<storeVars, faults, dbcall, hist, ncall, mainv, zoomVars>>

\* ChartIngest::getStatistics().failCount as used at main.cpp 274
ExitCode == IF failCount_ > 0 THEN 1 ELSE 0

\* processFiles returns (ingest.cpp 187); main.cpp 257-274: summary and exit code
MainAfterDirectory ==
    /\ mainv.pc = "directory"
    /\ pfs.active
    /\ pf.pc = "idle"
    /\ pfs.k = Len(pfs.files)
    /\ mainv' = [mainv EXCEPT !.pc = "exit", !.results = pfs.results, !.exitCode = ExitCode]
    /\ pfs' = NoProcessFiles
    /\ UNCHANGED <<storeVars, faults, pf, dbcall, hist, ncall, ingestVars, zoomVars>>

\* processFile returns to main (main.cpp 245-246); main.cpp 257-274
MainAfterSingle ==
    /\ mainv.pc = "single"
    /\ pf.pc = "ret"
    /\ pf.caller = "main"
    /\ mainv' = [mainv EXCEPT !.pc = "exit", !.results = <<pf.result>>, !.exitCode = ExitCode]
    /\ pf' = IdleFrame
    /\ UNCHANGED <<storeVars, faults, dbcall, hist, ncall, pfs, ingestVars, zoomVars>>

\* number of chart files in an input directory
MaxDirFiles == 2

MainInputs ==
    {[NoMain EXCEPT !.pc = "start", !.kind = k] : k \in {"empty", "missing"}}
    \cup {[NoMain EXCEPT !.pc = "start", !.kind = "file", !.file = f, !.initSchema = b] :
             f \in FileIds, b \in BOOLEAN}
    \cup {[NoMain EXCEPT !.pc = "start", !.kind = "dir", !.dir = d, !.initSchema = b] :
             d \in {e \in SUBSET FileIds : Cardinality(e) <= MaxDirFiles}, b \in BOOLEAN}

\* The database main connects to is empty or holds chart US1 from an
\* earlier run on file fA1.
InitMain ==
    /\ InitCommon
    /\ (EmptyStore \/ PriorStore)
    /\ connected = FALSE
    /\ mainv \in MainInputs

NextMain ==
    \/ MainValidate
    \/ MainConnect
    \/ MainInitSchema
    \/ MainProcessSingle
    \/ MainProcessDirectory
    \/ ProcessFilesCall
    \/ PfChartExists
    \/ PfDeleteChart
    \/ PfInsertChart
    \/ PfInsertBatch
    \/ PfException
    \/ ProcessFilesRecord
    \/ MainAfterDirectory
    \/ MainAfterSingle

SpecMain == InitMain /\ [][NextMain]_vars

(***************************************************************************)
(* A client of a store that may hold an earlier ingestion: one            *)
(* processFile call on cells whose feature counts lie around the batch    *)
(* size, and deleteChart calls                                             *)
(***************************************************************************)
BatchFileIds == {"fA1", "fA2", "fF", "fG", "fH"}

BatchProcessFile ==
    /\ pf.pc = "idle"
    /\ ncall = 0
    /\ \E f \in BatchFileIds : pf' = EnterProcessFile(f, "client")
    /\ ncall' = ncall + 1
    /\ UNCHANGED <<storeVars, faults, dbcall, hist, mainVars, zoomVars>>

InitBatch ==
    /\ InitCommon
    /\ EmptyStore \/ PriorStore
    /\ connected \in BOOLEAN
    /\ mainv = NoMain

NextBatch ==
    \/ BatchProcessFile
    \/ ClientDeleteChart
    \/ PfChartExists
    \/ PfDeleteChart
    \/ PfInsertChart
    \/ PfInsertBatch
    \/ ClientReturn

SpecBatch == InitBatch /\ [][NextBatch]_vars

(***************************************************************************)
(* The zoom mapper and the record reader applied to sample inputs          *)
(***************************************************************************)
\* largest scale of the dense range 2..MaxSmallScale
MaxSmallScale == 40

\* value bits of int
IntBits == 31

RECURSIVE Pow2(_)
Pow2(k) == IF k = 0 THEN 1 ELSE 2 * Pow2(k - 1)

Scales ==
    {0, -1, -50000, INT_MIN, INT_MAX}
    \cup (1..MaxSmallScale)
    \cup {Pow2(k) + d : k \in 2..(IntBits - 1), d \in {-1, 0, 1}}

ScaleTexts ==
    { <<"0">>, <<"1">>, <<"-","5">>, <<"+","7">>, <<" ","4","2">>, <<"1","2","a","b","c">>,
      <<"a","b","c">>, T50000, T12000,
      <<"2","6","8","4","3","5","4","5","6">>,
      <<"2","6","8","4","3","5","4","5","7">>,
      <<"5","3","6","8","7","0","9","1","2">>,
      <<"2","1","4","7","4","8","3","6","4","7">>,
      <<"2","1","4","7","4","8","3","6","4","8">>,
      <<"-","2","1","4","7","4","8","3","6","4","8">>,
      <<"9","9","9","9","9","9","9","9","9","9","9">> }

\* property maps of a record: each of SCAMIN, SCAMAX absent or one of the texts
ScaleProps ==
    {NoProps}
    \cup {[k \in {"SCAMIN"} |-> t] : t \in ScaleTexts}
    \cup {[k \in {"SCAMAX"} |-> t] : t \in ScaleTexts}
    \cup {[k \in {"SCAMIN", "SCAMAX"} |-> IF k = "SCAMIN" THEN t ELSE u] : t \in ScaleTexts, u \in ScaleTexts}

ZFindZoom ==
    /\ zarg.op = "none"
    /\ \E scale \in Scales :
         /\ zarg' = [op |-> "findZoom", scale |-> scale, props |-> NoProps]
         /\ zres' = [zoom |-> findZoom(scale), minZ |-> 0, maxZ |-> 0]
    /\ UNCHANGED <<storeVars, faults, pf, dbcall, hist, ncall, mainVars>>

\* calculateZRange applied to a pair of scales
ZCalculateZRange ==
    /\ zarg.op = "none"
    /\ \E scamin \in Scales, scamax \in Scales :
         /\ zarg' = [op |-> "calculateZRange", scale |-> scamin, scamax |-> scamax, props |-> NoProps]
         /\ zres' = [zoom |-> 0, minZ |-> calculateZRange(scamin, scamax)[1],
                     maxZ |-> calculateZRange(scamin, scamax)[2]]
    /\ UNCHANGED <<storeVars, faults, pf, dbcall, hist, ncall, mainVars>>

(***************************************************************************)
(* Database::lnamRefsToArrayLiteral (database.cpp 142-163).  A string is  *)
(* the sequence of its characters.                                         *)
(***************************************************************************)
\* the loop of lines 154-158 without the doubling of quotes
escapeQuotesNone(ref) == ref

\* lines 154-158: every single quote of ref is doubled
RECURSIVE escapeQuotes(_)
escapeQuotes(ref) ==
    IF ref = <<>> THEN <<>>
    ELSE (IF Head(ref) = "'" THEN <<"'", "'">> ELSE <<Head(ref)>>) \o escapeQuotes(Tail(ref))

\* lines 150-160: the quoted elements from the k-th one on, comma separated
RECURSIVE quotedRefsFrom(_, _)
quotedRefsFrom(refs, k) ==
    IF k > Len(refs) THEN <<>>
    ELSE (IF k > 1 THEN <<",">> ELSE <<>>)
         \o <<"'">> \o escapeQuotes(refs[k]) \o <<"'">>
         \o quotedRefsFrom(refs, k + 1)

lnamRefsToArrayLiteral(refs) ==
    IF refs = <<>> THEN <<"N","U","L","L">>
    ELSE <<"A","R","R","A","Y","[">> \o quotedRefsFrom(refs, 1)
         \o <<"]",":",":","v","a","r","c","h","a","r","[","]">>

\* longest sampled reference list and reference
MaxRefs == 2

MaxRefLen == 2

\* characters of the sampled references: a letter, the quote, the separator
RefChars == {"A", "'", ","}

RefStrings == UNION {[1..n -> RefChars] : n \in 0..MaxRefLen}

\* the sampled lists, and the list ["A'B", "C"]
RefLists ==
    UNION {[1..n -> RefStrings] : n \in 0..MaxRefs} \cup {<< <<"A","'","B">>, <<"C">> >>}

\* lnamRefsToArrayLiteral applied to a reference list
ZLnamRefs ==
    /\ zarg.op = "none"
    /\ \E refs \in RefLists :
         /\ zarg' = [op |-> "lnamRefsToArrayLiteral", refs |-> refs]
         /\ zres' = [literal |-> lnamRefsToArrayLiteral(refs)]
    /\ UNCHANGED <<storeVars, faults, pf, dbcall, hist, ncall, mainVars>>

(***************************************************************************)
(* ChartIngest::findS57Files (ingest.cpp 36-76) on a directory tree.  A    *)
(* path is the sequence of its characters; an entry of the tree is a path  *)
(* and what lies there: a regular file, a directory, or something else     *)
(* (a FIFO).                                                               *)
(***************************************************************************)
FsEntries ==
    { [path |-> <<"d">>, kind |-> "dir"],
      [path |-> <<"d","/","b",".","0","0","0">>, kind |-> "file"],
      [path |-> <<"d","/","a",".","0","0","0">>, kind |-> "file"],
      [path |-> <<"d","/","B",".","0","0","0">>, kind |-> "file"],
      [path |-> <<"d","/","a",".","0","0","0","0">>, kind |-> "file"],
      [path |-> <<"d","/",".","0","0","0">>, kind |-> "file"],
      [path |-> <<"d","/","c",".","0","0","0">>, kind |-> "dir"],
      [path |-> <<"d","/","c",".","0","0","0","/","e",".","0","0","0">>, kind |-> "file"],
      [path |-> <<"d","/","s">>, kind |-> "dir"],
      [path |-> <<"d","/","s","/","a",".","0","0","0">>, kind |-> "file"],
      [path |-> <<"d","/","s","/","n",".","t">>, kind |-> "file"],
      [path |-> <<"d","/","p",".","0","0","0">>, kind |-> "other"],
      [path |-> <<"x",".","0","0","0">>, kind |-> "file"],
      [path |-> <<"x",".","t">>, kind |-> "file"] }

\* a path at which nothing lies
MissingPath == <<"q">>

\* the value of a char, by which std::string compares
CharCode(c) ==
    CASE c = "." -> 46 [] c = "/" -> 47 [] c = "0" -> 48 [] c = "B" -> 66 [] c = "a" -> 97 [] c = "b" -> 98 [] c = "c" -> 99 [] c = "d" -> 100 [] c = "e" -> 101 [] c = "n" -> 110 [] c = "p" -> 112 [] c = "q" -> 113 [] c = "s" -> 115 [] c = "t" -> 116 [] c = "x" -> 120

\* fs::exists, fs::is_regular_file, fs::is_directory
PathExists(path) == \E e \in FsEntries : e.path = path

IsRegularFile(path) == \E e \in FsEntries : e.path = path /\ e.kind = "file"

IsDirectory(path) == \E e \in FsEntries : e.path = path /\ e.kind = "dir"

\* position of the last occurrence of c in s, 0 when there is none
LastIndexOf(s, c) ==
    LET hits == {k \in 1..Len(s) : s[k] = c}
    IN  IF hits = {} THEN 0 ELSE CHOOSE k \in hits : \A j \in hits : j <= k

\* fs::path::filename: what follows the last separator
FileNameOf(path) == SubSeq(path, LastIndexOf(path, "/") + 1, Len(path))

\* fs::path::parent_path
ParentOf(path) == SubSeq(path, 1, LastIndexOf(path, "/") - 1)

\* fs::path::extension: from the last period of the file name on; empty
\* when there is none or when the only period is its first character
Extension(path) ==
    LET name == FileNameOf(path)
        dot  == LastIndexOf(name, ".")
    IN  IF dot <= 1 THEN <<>> ELSE SubSeq(name, dot, Len(name))

Ext000 == <<".", "0", "0", "0">>

\* the entries a directory_iterator of dir delivers
DirectEntries(dir) == {e \in FsEntries : LastIndexOf(e.path, "/") > 0 /\ ParentOf(e.path) = dir}

\* the entries a recursive_directory_iterator of dir delivers
RECURSIVE RecursiveEntries(_)
RecursiveEntries(dir) ==
    DirectEntries(dir)
      \cup UNION {RecursiveEntries(e.path) : e \in {x \in DirectEntries(dir) : x.kind = "dir"}}

\* lines 58-69: the delivered entries that are pushed
PushedEntries(path, recursive) ==
    IF ~IsDirectory(path) THEN {}
    ELSE {e \in (IF recursive THEN RecursiveEntries(path) ELSE DirectEntries(path)) :
             e.kind = "file" /\ Extension(e.path) = Ext000}

\* the orders in which an iterator may deliver the entries of a set
Orders(set) ==
    {o \in [1..Cardinality(set) -> set] : \A i, j \in 1..Cardinality(set) : i # j => o[i] # o[j]}

\* operator< of std::string
RECURSIVE StringLessFrom(_, _, _)
StringLessFrom(a, b, k) ==
    IF k > Len(b) THEN FALSE
    ELSE IF k > Len(a) THEN TRUE
    ELSE IF a[k] = b[k] THEN StringLessFrom(a, b, k + 1)
    ELSE CharCode(a[k]) < CharCode(b[k])

StringLess(a, b) == StringLessFrom(a, b, 1)

\* findS57Files returning the paths in the order of the iterator
sortFilesNone(files) == files

\* line 73: std::sort(files.begin(), files.end())
RECURSIVE sortFiles(_)
sortFiles(files) ==
    IF files = <<>> THEN <<>>
    ELSE LET rest == sortFiles(Tail(files))
             x    == Head(files)
             n    == Cardinality({k \in 1..Len(rest) : StringLess(rest[k], x)})
         IN  SubSeq(rest, 1, n) \o <<x>> \o SubSeq(rest, n + 1, Len(rest))

\* findS57Files(path, recursive) when the iterator delivers the pushed
\* entries in the given order
findS57FilesOnTree(path, recursive, order) ==
    IF ~PathExists(path) THEN <<>>
    ELSE IF IsRegularFile(path) THEN (IF Extension(path) = Ext000 THEN <<path>> ELSE <<>>)
    ELSE IF ~IsDirectory(path) THEN <<>>
    ELSE sortFiles([k \in 1..Len(order) |-> order[k].path])

\* findS57Files applied to a path of the tree
ZFindS57Files ==
    /\ zarg.op = "none"
    /\ \E path \in {e.path : e \in FsEntries} \cup {MissingPath}, recursive \in BOOLEAN :
         \E order \in Orders(PushedEntries(path, recursive)) :
           /\ zarg' = [op |-> "findS57Files", path |-> path, recursive |-> recursive, order |-> order]
           /\ zres' = [files |-> findS57FilesOnTree(path, recursive, order)]
    /\ UNCHANGED <<storeVars, faults, pf, dbcall, hist, ncall, mainVars>>

\* layer names asked of a reader
ReaderLayerNames == {"DSID", "M_COVR", "SOUNDG", "DEPARE"}

\* a reader is constructed on a file and its accessors are called
ZOpenReader ==
    /\ zarg.op = "none"
    /\ \E f \in FileIds, layerName \in ReaderLayerNames :
         /\ zarg' = [op |-> "S57", file |-> f, layerName |-> layerName]
         /\ zres' = [isOpen        |-> isOpen(S57(f)),
                     layerNames    |-> getLayerNames(S57(f)),
                     layerFeatures |-> getLayerFeatures(S57(f), layerName),
                     allFeatures   |-> readAllFeatures(f),
                     chartInfo     |-> getChartInfo(S57(f))]
    /\ UNCHANGED <<storeVars, faults, pf, dbcall, hist, ncall, mainVars>>

\* one record of a layer read by getLayerFeatures
ZReadRecord ==
    /\ zarg.op = "none"
    /\ \E props \in ScaleProps :
         LET feat == MakeFeature("DEPARE", Rec(props, 1)) IN
         /\ zarg' = [op |-> "getLayerFeatures", scale |-> 0, props |-> props]
         /\ zres' = [zoom |-> 0, minZ |-> feat.minZ, maxZ |-> feat.maxZ]
    /\ UNCHANGED <<storeVars, faults, pf, dbcall, hist, ncall, mainVars>>

InitZoom ==
    /\ InitCommon
    /\ EmptyStore
    /\ connected = FALSE
    /\ mainv = NoMain

NextZoom ==
    \/ ZFindZoom
    \/ ZReadRecord
    \/ ZCalculateZRange
    \/ ZLnamRefs
    \/ ZFindS57Files
    \/ ZOpenReader

SpecZoom == InitZoom /\ [][NextZoom]_vars


(***************************************************************************)
(* Properties                                                              *)
(***************************************************************************)
ChartsNamed(name) == {c \in charts : c.name = name}

FeaturesOf(chartId) == SelectSeq(features, LAMBDA r : r.chart_id = chartId)

ScalarsMatch(c, chart) ==
    /\ c.name = chart.name
    /\ c.scale = chart.scale
    /\ c.file_name = chart.fileName
    /\ c.updated = chart.updated
    /\ c.issued = chart.issued
    /\ c.zoom = chart.zoom

\* the last two calls of the client were processFile calls that succeeded
\* for the same chart name
ReingestedTwice ==
    /\ pf.pc = "idle"
    /\ Len(hist) = 2
    /\ hist[1].op = "processFile" /\ hist[2].op = "processFile"
    /\ hist[1].result.success /\ hist[2].result.success
    /\ hist[1].result.chartName = hist[2].result.chartName

\* C1: after two successive successful processFile calls for inputs with the
\* same chart name, the store holds exactly one chart row of that name, its
\* scalar fields are those of the second input, the feature rows referencing
\* it are as many as the second input has features, and no feature row of
\* the first ingestion remains.
C1_ReingestReplaces ==
    ReingestedTwice =>
        LET second == hist[2]
            rows   == ChartsNamed(second.result.chartName)
        IN  /\ Cardinality(rows) = 1
            /\ \A c \in rows :
                 /\ c.id = second.chartId
                 /\ ScalarsMatch(c, getChartInfo(S57(second.file)))
                 /\ Len(FeaturesOf(c.id)) = Len(readAllFeatures(second.file))
                 /\ Len(FeaturesOf(c.id)) = second.result.featureCount
            /\ FeaturesOf(hist[1].chartId) = <<>>

C1_Witness ==
    /\ ReingestedTwice
    /\ hist[1].file # hist[2].file
    /\ hist[1].result.featureCount > 0
    /\ hist[1].result.featureCount # hist[2].result.featureCount

\* C2: in every reachable state no two stored chart rows have the same name.
C2_NameUnique ==
    \A c1 \in charts : \A c2 \in charts : c1.name = c2.name => c1 = c2

\* an insertChart for a name that is stored has just been rejected
C2_Witness ==
    /\ dbcall.op = "insertChart"
    /\ ~dbcall.ok
    /\ dbcall.exAt = 0
    /\ connected
    /\ ChartsNamed(dbcall.name) # {}
    /\ chartSeq = 2

\* C3: in every reachable state every feature row's chart_id is the id of a
\* stored chart row.
C3_FeaturesReferenceCharts ==
    {features[k].chart_id : k \in 1..Len(features)} \subseteq {c.id : c \in charts}

\* a deleteChart has just removed a chart that a processFile call had
\* stored with its features
C3_Witness ==
    /\ dbcall.op = "deleteChart"
    /\ dbcall.ok
    /\ ChartsNamed(dbcall.name) = {}
    /\ Len(hist) = 2
    /\ hist[1].op = "processFile"
    /\ hist[1].result.success
    /\ hist[1].result.featureCount > 0
    /\ hist[1].result.chartName = dbcall.name
    /\ hist[2].op = "deleteChart"

\* C4: insertFeatures is all-or-nothing: when a row of the batch fails the
\* call returns false and the features table is unchanged, when it returns
\* true the rows of the whole batch are appended once each, in order; the
\* charts table is never touched.
C4_BatchAtomic ==
    [][ (dbcall'.n # dbcall.n /\ dbcall'.op = "insertFeatures") =>
          LET batch == dbcall'.batch IN
          /\ charts' = charts
          /\ ((dbcall'.exAt # 0 \/ \E k \in 1..Len(batch) : ~GeoJsonOk(batch[k].geom)) => ~dbcall'.ok)
          /\ (~dbcall'.ok => features' = features)
          /\ (dbcall'.ok => features' = features \o BatchRows(dbcall'.chartId, batch)) ]_vars

\* a batch whose first row is fine and whose second row is rejected
C4_Witness ==
    /\ dbcall.op = "insertFeatures"
    /\ ~dbcall.ok
    /\ dbcall.exAt = 0
    /\ Len(dbcall.batch) >= 2
    /\ \E c \in charts : c.id = dbcall.chartId
    /\ GeoJsonOk(dbcall.batch[1].geom)
    /\ ~GeoJsonOk(dbcall.batch[2].geom)

\* C5: when the k-th insertFeatures call of a file fails, processFile goes
\* to its return with the failure result "Failed to insert features", the
\* chart row and exactly the features of batches 1..k-1 are stored, and
\* from there to the return no database call is made and the store is not
\* changed.
C5_BatchFailureStops ==
    [][ /\ (pf.pc = "batch" /\ dbcall'.n # dbcall.n /\ ~dbcall'.ok) =>
            /\ dbcall'.op = "insertFeatures"
            /\ pf'.pc = "ret"
            /\ ~pf'.result.success
            /\ pf'.result.errorMessage = "Failed to insert features"
            /\ pf'.calls = pf.calls + 1
            /\ \E c \in charts' : c.id = pf.chartId /\ c.name = pf.chartInfo.name
            /\ SelectSeq(features', LAMBDA r : r.chart_id = pf.chartId)
                 = BatchRows(pf.chartId, SubSeq(pf.features, 1, pf.calls * batchSize))
        /\ pf.pc = "ret" =>
            /\ dbcall'.n = dbcall.n
            /\ charts' = charts
            /\ features' = features ]_vars

\* the second batch of a file failed and the first batch is stored
C5_Witness ==
    /\ pf.pc = "ret"
    /\ pf.result.errorMessage = "Failed to insert features"
    /\ pf.calls = 2
    /\ Len(FeaturesOf(pf.chartId)) = batchSize

\* C6: whenever processFile ends with "Failed to insert chart", no chart row
\* with the file's chart name is stored.
C6_ChartAbsentAfterWriteFailure ==
    (pf.pc = "ret" /\ pf.result.errorMessage = "Failed to insert chart")
        => ChartsNamed(pf.chartInfo.name) = {}

\* C7: when the run reached processing, the exit code is non-zero if and
\* only if some processed file's result is a failure.
C7_ExitCodeIffFailure ==
    (mainv.pc = "exit" /\ mainv.processing)
        => ((mainv.exitCode # 0) <=> (\E k \in 1..Len(mainv.results) : ~mainv.results[k].success))

\* zoom levels looked at when comparing intervals
ZoomLevels == (-4)..(ONE_TO_ONE_ZOOM + 2)

\* C8: the zoom interval stored for a feature contains exactly the integers
\* z with minZ <= z <= maxZ.
C8_ZRangeInclusive ==
    (dbcall.op \in {"insertFeatures", "insertFeature"} /\ dbcall.ok) =>
        \A k \in 1..Len(dbcall.batch) :
            LET row == features[Len(features) - Len(dbcall.batch) + k] IN
            \A z \in ZoomLevels :
                RangeContains(row.z_range, z) <=> (dbcall.batch[k].minZ <= z /\ z <= dbcall.batch[k].maxZ)

\* C9: every feature read by getLayerFeatures has 0 <= minZ <= maxZ <= 28.
C9_FeatureZoomWithinBounds ==
    zarg.op = "getLayerFeatures" =>
        /\ 0 <= zres.minZ
        /\ zres.minZ <= zres.maxZ
        /\ zres.maxZ <= ONE_TO_ONE_ZOOM

\* ceil(log2(n)) for 1 <= n <= INT_MAX
CeilLog2(n) ==
    IF n > Pow2(IntBits - 1) THEN IntBits
    ELSE CHOOSE k \in 0..(IntBits - 1) : n <= Pow2(k) /\ \A j \in 0..(k - 1) : n > Pow2(j)

\* C10: findZoom(scale) = 28 - ceil(log2(scale)) for scale > 1 and 28 for
\* scale <= 1; it is never above 28 and negative exactly above 2^28.
C10_FindZoomClosedForm ==
    zarg.op = "findZoom" =>
        /\ (zarg.scale > 1 => zres.zoom = ONE_TO_ONE_ZOOM - CeilLog2(zarg.scale))
        /\ (zarg.scale <= 1 => zres.zoom = ONE_TO_ONE_ZOOM)
        /\ zres.zoom <= ONE_TO_ONE_ZOOM
        /\ (zres.zoom < 0 <=> zarg.scale > Pow2(ONE_TO_ONE_ZOOM))

\* a scale just above a power of two, beyond 2^28: the zoom is negative
C10_Witness ==
    /\ zarg.op = "findZoom"
    /\ zarg.scale = Pow2(29) + 1
    /\ zres.zoom = -2

\* C11: calculateZRange(scamin, scamax) returns (minZ, maxZ) with
\* minZ <= maxZ, the ascending ordering of a = findZoom(scamin) if
\* scamin > 0 else 0 and b = findZoom(scamax) if scamax > 0 else 28; for
\* both > 0 the set {minZ, maxZ} is {findZoom(scamin), findZoom(scamax)},
\* and the result is (0, 28) when neither is positive.
C11_ZRangeOrdered ==
    zarg.op = "calculateZRange" =>
        LET a == IF zarg.scale > 0 THEN findZoom(zarg.scale) ELSE 0
            b == IF zarg.scamax > 0 THEN findZoom(zarg.scamax) ELSE ONE_TO_ONE_ZOOM
        IN  /\ zres.minZ <= zres.maxZ
            /\ zres.minZ = Min(a, b)
            /\ zres.maxZ = (IF a < b THEN b ELSE a)
            /\ (zarg.scale > 0 /\ zarg.scamax > 0) =>
                   {zres.minZ, zres.maxZ} = {findZoom(zarg.scale), findZoom(zarg.scamax)}
            /\ (zarg.scale <= 0 /\ zarg.scamax <= 0) =>
                   (zres.minZ = 0 /\ zres.maxZ = ONE_TO_ONE_ZOOM)

\* the zoom of scamin lies above the zoom of scamax: the pair was swapped
C11_Witness ==
    /\ zarg.op = "calculateZRange"
    /\ zarg.scale = 2
    /\ zarg.scamax = 1024
    /\ zres.minZ = 18
    /\ zres.maxZ = 27

CeilDiv(n, d) == (n + d - 1) \div d

\* C12: for a file with n extracted features processFile issues exactly
\* ceil(n/1000) insertFeatures calls when none fails (none for n = 0),
\* the k-th call carries features (k-1)*1000+1 .. min(k*1000, n) of the
\* extracted sequence, so every batch holds between 1 and 1000 features
\* and the batches concatenated are the extracted sequence, and the rows
\* inserted for the chart are the n features in that order.
C12_BatchesPartitionFeatures ==
    [][ /\ (pf.pc = "batch" /\ dbcall'.n # dbcall.n) =>
             /\ dbcall'.op = "insertFeatures"
             /\ dbcall'.batch = SubSeq(pf.features, pf.calls * batchSize + 1,
                                       Min((pf.calls + 1) * batchSize, Len(pf.features)))
             /\ Len(dbcall'.batch) \in 1..batchSize
             /\ pf'.calls = pf.calls + 1
             /\ pf'.features = pf.features
        /\ (pf.pc # "ret" /\ pf'.pc = "ret" /\ pf'.result.success) =>
             /\ pf'.features = getAllFeatures(S57(pf'.file))
             /\ pf'.calls = CeilDiv(Len(pf'.features), batchSize)
             /\ pf'.result.featureCount = Len(pf'.features)
             /\ SelectSeq(features', LAMBDA r : r.chart_id = pf'.chartId)
                  = BatchRows(pf'.chartId, pf'.features)
        /\ (pf'.pc = "ret" /\ Len(getAllFeatures(S57(pf'.file))) = 0) => pf'.calls = 0
      ]_vars

\* a cell of exactly 1000 features was stored with one insertFeatures call
C12_Witness ==
    /\ pf.pc = "ret"
    /\ pf.result.success
    /\ pf.result.featureCount = batchSize
    /\ pf.calls = 1
    /\ Len(FeaturesOf(pf.chartId)) = batchSize

\* C13: deleteChart(name) for a name without chart row leaves the charts
\* and features tables unchanged and, on a live connection whose statements
\* execute, returns success; after a successful deleteChart(name) the name
\* has no chart row, so a second deleteChart(name) in a row leaves the
\* store as the first one left it and reports success as well.
C13_DeleteAbsentIsNoOp ==
    [][ (dbcall'.n # dbcall.n /\ dbcall'.op = "deleteChart") =>
            /\ ChartsNamed(dbcall'.name) = {} =>
                  /\ charts' = charts
                  /\ features' = features
                  /\ (connected /\ dbcall'.exAt = 0) => dbcall'.ok
            /\ dbcall'.ok => {c \in charts' : c.name = dbcall'.name} = {}
            /\ (dbcall.op = "deleteChart" /\ dbcall.ok /\ dbcall.name = dbcall'.name) =>
                  /\ charts' = charts
                  /\ features' = features
                  /\ (connected /\ dbcall'.exAt = 0) => dbcall'.ok
      ]_vars

\* two deleteChart calls in a row, the second one of a name without chart
\* row on a store that holds a chart and its features
C13_Witness ==
    /\ Len(hist) = 2
    /\ hist[1].op = "deleteChart"
    /\ hist[2].op = "deleteChart"
    /\ dbcall.op = "deleteChart"
    /\ dbcall.ok
    /\ ChartsNamed(dbcall.name) = {}
    /\ charts # {}
    /\ features # <<>>

ExclusionList == {"DSID", "IsolatedNode", "ConnectedNode", "Edge", "Face"}

\* C14: getLayerFeatures of the file being processed is empty for each
\* layer name of the exclusion list, whatever records the layer holds, and
\* no feature read by getAllFeatures and no row stored by processFile has
\* a layer name of that list.
C14_ExcludedLayersNeverStored ==
    /\ pf.pc # "idle" =>
          /\ \A name \in ExclusionList : getLayerFeatures(S57(pf.file), name) = <<>>
          /\ \A k \in 1..Len(pf.features) : pf.features[k].layer \notin ExclusionList
    /\ \A k \in 1..Len(features) : features[k].layer \notin ExclusionList

\* a cell with a DSID record and an Edge record was stored: 3 of its 5
\* records became rows
C14_Witness ==
    /\ pf.pc = "ret"
    /\ pf.file = "fA1"
    /\ pf.result.success
    /\ pf.result.featureCount = 3
    /\ Len(FeaturesOf(pf.chartId)) = 3
    /\ \E l \in 1..Len(S57(pf.file).layers) :
         /\ S57(pf.file).layers[l].name = "Edge"
         /\ S57(pf.file).layers[l].recs # <<>>

RECURSIVE SumSuccessFeatures(_, _)
SumSuccessFeatures(results, k) ==
    IF k > Len(results) THEN 0
    ELSE (IF results[k].success THEN results[k].featureCount ELSE 0)
         + SumSuccessFeatures(results, k + 1)

\* the counters agree with the results of the first Len(results) paths
CountersMatch(results, paths) ==
    /\ Len(results) <= Len(paths)
    /\ \A k \in 1..Len(results) : results[k].fileName = S57(paths[k]).fileName
    /\ processedCount_ = Len(results)
    /\ processedCount_ = successCount_ + failCount_
    /\ successCount_ = Cardinality({k \in 1..Len(results) : results[k].success})
    /\ totalFeatures_ = SumSuccessFeatures(results, 1)

\* C15: processFiles(paths) returns one ProcessingResult per path, in input
\* order, and when it returns: files processed = number of paths =
\* successes + failures, successes = number of results with success, total
\* features = sum of featureCount over the successful results only.  The
\* counters agree with the results so far after each file as well.
C15_CountersMatchResults ==
    /\ pfs.active => CountersMatch(pfs.results, pfs.files)
    /\ (mainv.pc = "exit" /\ mainv.kind = "dir" /\ mainv.processing) =>
          /\ Len(mainv.results) = Len(findS57Files(mainv.dir))
          /\ CountersMatch(mainv.results, findS57Files(mainv.dir))

\* processFiles returned for two paths: one success, and one failure whose
\* featureCount is not zero and was not added
C15_Witness ==
    /\ mainv.pc = "exit"
    /\ mainv.kind = "dir"
    /\ Len(mainv.results) = 2
    /\ \E j, k \in 1..2 :
         /\ mainv.results[j].success
         /\ ~mainv.results[k].success
         /\ mainv.results[k].featureCount > 0
         /\ totalFeatures_ = mainv.results[j].featureCount
    /\ processedCount_ = 2

\* C16: a failure while one file is processed (the file does not open,
\* insertChart returns no identifier, an insertFeatures call fails, or an
\* exception is thrown) ends processFile with a result of success = false
\* and a non-empty error message; processFile never leaves by an
\* exception; processFiles records the result, goes on with the next path
\* and returns only when every path has a result.
C16_FailuresCaptured ==
    [][ /\ pf'.pc \in {"idle", "exists", "delete", "insert", "batch", "ret"}
        /\ (pf.pc # "ret" /\ pf'.pc = "ret") =>
             LET called == dbcall'.n # dbcall.n
                 failed == \/ ~isOpen(S57(pf'.file))
                           \/ called /\ dbcall'.op \in {"insertChart", "insertFeatures"} /\ ~dbcall'.ok
                           \/ ~called /\ pf.pc \in {"exists", "delete", "insert", "batch"}
             IN  /\ failed => ~pf'.result.success
                 /\ ~pf'.result.success => pf'.result.errorMessage # ""
        /\ (pfs.active /\ pf.pc = "ret" /\ pf'.pc = "idle") =>
             /\ pfs'.active
             /\ pfs'.k = pfs.k + 1
             /\ pfs'.results = Append(pfs.results, pf.result)
        /\ (mainv.pc = "directory" /\ mainv'.pc = "exit") =>
             Len(mainv'.results) = Len(pfs.files)
      ]_vars

\* the first file of a directory ended by an exception, the second one was
\* processed after it
C16_Witness ==
    /\ mainv.pc = "exit"
    /\ mainv.kind = "dir"
    /\ Len(mainv.results) = 2
    /\ ~mainv.results[1].success
    /\ mainv.results[1].errorMessage \in ExceptionTexts
    /\ mainv.results[2].success
    /\ failCount_ = 1

\* the state of the per-file state machine a processFile frame is in
FileState(frame) ==
    CASE frame.pc = "idle" -> "Unopened"
      [] frame.pc \in {"exists", "delete", "insert"} -> "Opened"
      [] frame.pc = "batch" -> "ChartInserted"
      [] frame.pc = "ret" /\ frame.result.success -> "FeaturesInserted"
      [] frame.pc = "ret" /\ ~frame.result.success /\ ~isOpen(S57(frame.file)) -> "FailedOpen"
      [] frame.pc = "ret" /\ ~frame.result.success /\ isOpen(S57(frame.file)) /\ frame.chartId = 0
           -> "FailedChartInsert"
      [] OTHER -> "FailedFeatureInsert"

FileTransitions ==
    { <<"Unopened", "Opened">>, <<"Unopened", "FailedOpen">>,
      <<"Opened", "Opened">>, <<"Opened", "ChartInserted">>, <<"Opened", "FailedChartInsert">>,
      <<"ChartInserted", "ChartInserted">>, <<"ChartInserted", "FeaturesInserted">>,
      <<"ChartInserted", "FailedFeatureInsert">> }

PcRank(pc) ==
    CASE pc = "idle" -> 0 [] pc = "exists" -> 1 [] pc = "delete" -> 2
      [] pc = "insert" -> 3 [] pc = "batch" -> 4 [] OTHER -> 5

\* C17: per file processFile follows Unopened -> Opened | FailedOpen,
\* Opened -> ChartInserted | FailedChartInsert, ChartInserted ->
\* FeaturesInserted | FailedFeatureInsert and stops in a terminal state;
\* no database operation is issued when the open fails; insertFeatures is
\* called only after insertChart returned an identifier, and with it;
\* success is reported only when every batch was inserted; no step is
\* retried: insertChart is called once at most and the batch offset only
\* grows, a failed batch ending the file.
C17_FileStateMachine ==
    [][ (pf.pc \notin {"idle", "ret"} \/ (pf.pc = "idle" /\ pf'.pc # "idle")) =>
          LET called == dbcall'.n # dbcall.n IN
          /\ <<FileState(pf), FileState(pf')>> \in FileTransitions
          /\ (pf.pc = "idle" /\ ~isOpen(S57(pf'.file))) =>
                /\ FileState(pf') = "FailedOpen"
                /\ ~called
          /\ FileState(pf') = "FailedOpen" => (pf.pc = "idle" /\ ~called)
          /\ (called /\ dbcall'.op = "insertChart") =>
                /\ pf.pc = "insert"
                /\ pf'.pc = (IF dbcall'.ok THEN "batch" ELSE "ret")
                /\ pf'.chartId = dbcall'.id
                /\ dbcall'.ok => \E c \in charts' : c.id = pf'.chartId /\ c.name = pf.chartInfo.name
          /\ (called /\ dbcall'.op = "insertFeatures") =>
                /\ pf.pc = "batch"
                /\ pf.chartId # 0
                /\ dbcall'.chartId = pf.chartId
                /\ pf'.chartId = pf.chartId
                /\ ~dbcall'.ok => FileState(pf') = "FailedFeatureInsert"
                /\ (dbcall'.ok /\ pf'.pc = "batch") => pf'.i = pf.i + Len(dbcall'.batch)
          /\ pf'.result.success =>
                /\ called /\ dbcall'.op = "insertFeatures" /\ dbcall'.ok
                /\ pf.i + Len(dbcall'.batch) = Len(pf.features)
          /\ PcRank(pf.pc) < PcRank(pf'.pc) \/ (pf.pc = "batch" /\ pf'.pc = "batch")
      ]_vars

\* FeaturesInserted was reached through two batches
C17_Witness ==
    /\ pf.pc = "ret"
    /\ FileState(pf) = "FeaturesInserted"
    /\ pf.calls = 2
    /\ pf.i >= Len(pf.features)
    /\ dbcall.op = "insertFeatures"
    /\ dbcall.chartId = pf.chartId

(***************************************************************************)
(* Reading an array constructor under the SQL rules: a string constant is *)
(* enclosed in single quotes, two adjacent quotes inside it stand for one *)
(* quote, the elements are separated by commas.                            *)
(***************************************************************************)
\* the string constant whose opening quote is at position k - 1: its value
\* and the position after its closing quote; next = 0 when it does not end
RECURSIVE SqlString(_, _, _)
SqlString(lit, k, acc) ==
    IF k > Len(lit) THEN [value |-> acc, next |-> 0]
    ELSE IF lit[k] # "'" THEN SqlString(lit, k + 1, Append(acc, lit[k]))
    ELSE IF k < Len(lit) /\ lit[k + 1] = "'" THEN SqlString(lit, k + 2, Append(acc, "'"))
    ELSE [value |-> acc, next |-> k + 1]

\* the elements from position k on, up to the closing bracket; ok is false
\* when the text is no list of string constants
RECURSIVE SqlElements(_, _, _)
SqlElements(lit, k, acc) ==
    IF k > Len(lit) \/ lit[k] # "'" THEN [ok |-> FALSE, list |-> acc, next |-> k]
    ELSE LET e == SqlString(lit, k + 1, <<>>) IN
         IF e.next = 0 \/ e.next > Len(lit) THEN [ok |-> FALSE, list |-> acc, next |-> k]
         ELSE IF lit[e.next] = "," THEN SqlElements(lit, e.next + 1, Append(acc, e.value))
         ELSE IF lit[e.next] = "]" THEN [ok |-> TRUE, list |-> Append(acc, e.value), next |-> e.next + 1]
         ELSE [ok |-> FALSE, list |-> acc, next |-> k]

ArrayOpen == <<"A","R","R","A","Y","[">>

VarcharCast == <<":",":","v","a","r","c","h","a","r","[","]">>

\* the value of the expression: null, or the list of the array constructor
SqlRead(lit) ==
    IF lit = <<"N","U","L","L">> THEN [ok |-> TRUE, null |-> TRUE, list |-> <<>>]
    ELSE IF Len(lit) <= Len(ArrayOpen) \/ SubSeq(lit, 1, Len(ArrayOpen)) # ArrayOpen
    THEN [ok |-> FALSE, null |-> FALSE, list |-> <<>>]
    ELSE LET r == SqlElements(lit, Len(ArrayOpen) + 1, <<>>) IN
         [ok |-> r.ok /\ SubSeq(lit, r.next, Len(lit)) = VarcharCast,
          null |-> FALSE, list |-> r.list]

\* C18: lnamRefsToArrayLiteral encodes the empty list as NULL, never as an
\* empty array, and a non-empty list as ARRAY['..',..]::varchar[]; read
\* back under the SQL quoting rules the literal is null for the empty list
\* and otherwise the original list, same elements in the same order.
C18_ArrayLiteralRoundTrip ==
    zarg.op = "lnamRefsToArrayLiteral" =>
        /\ SqlRead(zres.literal).ok
        /\ SqlRead(zres.literal).null <=> zarg.refs = <<>>
        /\ SqlRead(zres.literal).list = zarg.refs
        /\ zarg.refs # <<>> =>
              /\ SubSeq(zres.literal, 1, Len(ArrayOpen)) = ArrayOpen
              /\ Len(SqlRead(zres.literal).list) = Len(zarg.refs)

\* the list ["A'B", "C"] was encoded with a doubled quote
C18_Witness ==
    /\ zarg.op = "lnamRefsToArrayLiteral"
    /\ zarg.refs = << <<"A","'","B">>, <<"C">> >>
    /\ zres.literal = <<"A","R","R","A","Y","[","'","A","'","'","B","'",",","'","C","'",
                         "]",":",":","v","a","r","c","h","a","r","[","]">>
    /\ SqlRead(zres.literal).list = zarg.refs

\* path lies in directory dir (directly, or anywhere beneath it)
IsBeneath(path, dir, recursive) ==
    /\ Len(path) > Len(dir) + 1
    /\ SubSeq(path, 1, Len(dir) + 1) = dir \o <<"/">>
    /\ recursive \/ \A k \in (Len(dir) + 2)..Len(path) : path[k] # "/"

\* path ends with the extension .000 after a non-empty stem
HasExtension000(path) ==
    /\ Len(FileNameOf(path)) > Len(Ext000)
    /\ SubSeq(path, Len(path) - Len(Ext000) + 1, Len(path)) = Ext000

\* C19: findS57Files(path, recursive) is empty for a path at which nothing
\* lies; for a regular file it is that single path if and only if its
\* extension is exactly .000; for a directory it holds exactly the regular
\* files with extension .000 directly in it (anywhere beneath it when
\* recursive), each once, in ascending order, whatever the order in which
\* the directory was iterated.
C19_FindS57Files ==
    zarg.op = "findS57Files" =>
        LET path == zarg.path
            res  == zres.files
        IN  /\ ~PathExists(path) => res = <<>>
            /\ IsRegularFile(path) =>
                  res = (IF HasExtension000(path) THEN <<path>> ELSE <<>>)
            /\ IsDirectory(path) =>
                  /\ {res[k] : k \in 1..Len(res)}
                       = {e.path : e \in {x \in FsEntries :
                             /\ x.kind = "file"
                             /\ HasExtension000(x.path)
                             /\ IsBeneath(x.path, path, zarg.recursive)}}
                  /\ \A i, j \in 1..Len(res) : i < j => StringLess(res[i], res[j])
            /\ (PathExists(path) /\ ~IsRegularFile(path) /\ ~IsDirectory(path)) => res = <<>>

\* a recursive search of a directory whose iterator delivered the files in
\* descending order
C19_Witness ==
    /\ zarg.op = "findS57Files"
    /\ zarg.path = <<"d">>
    /\ zarg.recursive
    /\ Len(zres.files) = 5
    /\ \A k \in 1..4 : StringLess(zarg.order[k + 1].path, zarg.order[k].path)
    /\ zres.files[1] = <<"d","/","B",".","0","0","0">>
    /\ zres.files[5] = <<"d","/","s","/","a",".","0","0","0">>

\* C20: when the chart file cannot be opened, the reader is constructed
\* all the same, isOpen() is false, getLayerNames, getLayerFeatures and
\* getAllFeatures return empty sequences and getChartInfo returns the
\* default ChartInfo: empty name, scale 0, zoom 0.
C20_ClosedReaderDefaults ==
    (zarg.op = "S57" /\ ~S57(zarg.file).opens) =>
        /\ ~zres.isOpen
        /\ zres.layerNames = <<>>
        /\ zres.layerFeatures = <<>>
        /\ zres.allFeatures = <<>>
        /\ zres.chartInfo.name = ""
        /\ zres.chartInfo.scale = 0
        /\ zres.chartInfo.zoom = 0
        /\ zres.chartInfo = DefaultChartInfo

\* the accessors were called on the reader of a file that is no S-57 cell
C20_Witness ==
    /\ zarg.op = "S57"
    /\ zarg.file = "fE"
    /\ ~S57(zarg.file).opens
    /\ ~zres.isOpen
    /\ zres.chartInfo.name = ""

\* C21: when the database connection is not established at start-up, the
\* run ends at once with a non-zero exit code: no file is opened or
\* processed (no processFile call, no processFiles call), no database
\* operation is issued and the store is left as it was.
C21_ConnectionFailureAbortsRun ==
    [][ /\ (mainv.pc = "connect" /\ ~connected') =>
             /\ mainv'.pc = "exit"
             /\ mainv'.exitCode # 0
        /\ ~connected' =>
             /\ pf' = IdleFrame
             /\ ~pfs'.active
             /\ ~mainv'.processing
             /\ mainv'.results = <<>>
             /\ processedCount_' = 0
             /\ dbcall' = NoDbCall
             /\ charts' = charts
             /\ features' = features
             /\ chartSeq' = chartSeq
        /\ mainv.pc = "exit" => mainv' = mainv
      ]_vars

\* the run on an existing chart file ended at the failed connection, the
\* chart stored by an earlier run is untouched
C21_Witness ==
    /\ mainv.pc = "exit"
    /\ mainv.kind = "file"
    /\ mainv.file = "fA2"
    /\ ~connected
    /\ mainv.exitCode = 1
    /\ ~mainv.processing
    /\ dbcall = NoDbCall
    /\ PriorStore

\* C22: when a progress callback is set, processFiles invokes it once per
\* path, after the result of the path was recorded and counted, for
\* failed files as for successful ones: the k-th invocation has current =
\* k, total = number of paths and the file name of the k-th result, so the
\* last one has current = total; without callback nothing is invoked.
C22_ProgressAfterEachFile ==
    pfs.active =>
        /\ pfs.total = Len(pfs.files)
        /\ ~pfs.callbackSet => pfs.progress = <<>>
        /\ pfs.callbackSet =>
              /\ Len(pfs.progress) = Len(pfs.results)
              /\ Len(pfs.progress) = processedCount_
              /\ \A k \in 1..Len(pfs.progress) :
                    /\ pfs.progress[k].current = k
                    /\ pfs.progress[k].total = Len(pfs.files)
                    /\ pfs.progress[k].fileName = pfs.results[k].fileName
                    /\ pfs.progress[k].fileName = S57(pfs.files[k]).fileName
              /\ (pfs.k = Len(pfs.files) /\ pfs.files # <<>>) =>
                    pfs.progress[Len(pfs.progress)].current = pfs.total

\* two paths were processed, the first one failed, and the callback was
\* invoked for both
C22_Witness ==
    /\ pfs.active
    /\ pfs.callbackSet
    /\ pfs.k = 2
    /\ Len(pfs.files) = 2
    /\ ~pfs.results[1].success
    /\ pfs.results[2].success
    /\ Len(pfs.progress) = 2
    /\ pfs.progress[2].current = 2
    /\ pfs.progress[2].total = 2

\* C23: chartExists, deleteChart, insertChart and each feature batch of
\* processFile are committed one by one.  Whenever processFile is stopped
\* between two of them, by a crash or by a failed step, the store holds
\* what the steps before committed: after the delete the chart stored
\* before is absent with all of its features, and after the insert the new
\* chart is present with the features of the batches inserted so far, a
\* prefix of its features.
C23_StepsCommitSeparately ==
    /\ (pf.pc \in {"insert", "ret"} /\ dbcall.op = "deleteChart" /\ dbcall.ok) =>
          /\ ChartsNamed(pf.chartInfo.name) = {}
          /\ \A k \in 1..Len(features) : \E c \in charts : c.id = features[k].chart_id
    /\ (pf.pc = "batch" \/ (pf.pc = "ret" /\ pf.result.errorMessage = "Failed to insert features")) =>
          /\ \E c \in charts : c.id = pf.chartId /\ c.name = pf.chartInfo.name
          /\ pf.i <= Len(pf.features)
          /\ FeaturesOf(pf.chartId) = BatchRows(pf.chartId, SubSeq(pf.features, 1, pf.i))
          /\ pf.pc = "ret" => pf.i < Len(pf.features)

\* the chart of an earlier run was replaced, the first batch of the new
\* chart is stored and the second one failed: the store holds the new chart
\* with 1000 of its 1001 features
C23_Witness ==
    /\ pf.pc = "ret"
    /\ pf.file = "fA2"
    /\ pf.result.errorMessage = "Failed to insert features"
    /\ pf.calls = 2
    /\ Len(pf.features) = batchSize + 1
    /\ Len(FeaturesOf(pf.chartId)) = batchSize
    /\ pf.chartId = 2
    /\ ChartsNamed("US1") = {c \in charts : c.id = 2}
    /\ FeaturesOf(1) = <<>>

\* the chart rows of other names than name, and their feature rows
OtherCharts(ch, name) == {c \in ch : c.name # name}

OtherFeatures(ch, ft, name) ==
    SelectSeq(ft, LAMBDA r : r.chart_id \in {c.id : c \in OtherCharts(ch, name)})

\* C24: a step of processFile for a file whose chart name is N, and a
\* deleteChart(N) call, add, remove or change no chart row of another name
\* and no feature row of such a chart, whether the step succeeds or fails.
C24_OtherChartsUntouched ==
    [][ /\ pf.pc \notin {"idle", "ret"} =>
             /\ OtherCharts(charts', pf.chartInfo.name) = OtherCharts(charts, pf.chartInfo.name)
             /\ OtherFeatures(charts', features', pf.chartInfo.name)
                  = OtherFeatures(charts, features, pf.chartInfo.name)
        /\ (dbcall'.n # dbcall.n /\ dbcall'.op = "deleteChart") =>
             /\ OtherCharts(charts', dbcall'.name) = OtherCharts(charts, dbcall'.name)
             /\ OtherFeatures(charts', features', dbcall'.name)
                  = OtherFeatures(charts, features, dbcall'.name)
      ]_vars

\* a chart of another name was stored next to the chart of an earlier
\* run, which is there with its features
C24_Witness ==
    /\ pf.pc = "ret"
    /\ pf.result.success
    /\ pf.chartInfo.name = "US4"
    /\ ChartsNamed("US4") # {}
    /\ ChartsNamed("US1") = {ChartRow(1, getChartInfo(S57("fA1")))}
    /\ FeaturesOf(1) = BatchRows(1, getAllFeatures(S57("fA1")))

\* C25: processFile does not look at the result of deleteChart.  When the
\* delete of the chart to replace fails, its transaction rolls back and
\* the chart stays; processFile calls insertChart all the same, the
\* insert is rejected (the name is taken), the file fails with 'Failed to
\* insert chart', and the chart row stored before and all of its features
\* are stored unchanged.
C25_FailedDeleteKeepsOldChart ==
    [][ /\ pf.pc = "delete" =>
             /\ dbcall'.op = "deleteChart"
             /\ pf'.pc = "insert"
             /\ ~dbcall'.ok =>
                   /\ charts' = charts
                   /\ features' = features
                   /\ ChartsNamed(pf.chartInfo.name) # {}
        /\ (pf.pc = "insert" /\ dbcall.op = "deleteChart" /\ ~dbcall.ok) =>
             /\ dbcall'.op = "insertChart"
             /\ dbcall'.name = dbcall.name
             /\ ~dbcall'.ok
             /\ pf'.pc = "ret"
             /\ ~pf'.result.success
             /\ pf'.result.errorMessage = "Failed to insert chart"
             /\ charts' = charts
             /\ features' = features
      ]_vars

\* the delete of chart US1 failed, the insert was rejected, and the chart
\* of the earlier run is stored with its features
C25_Witness ==
    /\ pf.pc = "ret"
    /\ pf.file = "fA2"
    /\ pf.result.errorMessage = "Failed to insert chart"
    /\ dbcall.op = "insertChart"
    /\ dbcall.n = 3
    /\ faults = 1
    /\ charts = {ChartRow(1, getChartInfo(S57("fA1")))}
    /\ features = BatchRows(1, getAllFeatures(S57("fA1")))

====
